---- MODULE Spec2Model ----
(***************************************************************************)
(* Custody-transfer chaincode of the fertilizer supply chain.              *)
(*                                                                         *)
(* The repository holds two variants of the chaincode.  The five-state     *)
(* chaincode (supplier, transporter, agrodealer; variables ledger, last;   *)
(* specification Spec) and the two-hop chaincode of assetTransfer.js       *)
(* (variables ledger2, last2; specification TwoHopSpec) are each modelled  *)
(* over the world state they read and write through ctx.stub.              *)
(*                                                                         *)
(* One invocation is one ledger transaction.  ctx.stub.getState returns    *)
(* the value committed before the transaction started, ctx.stub.putState   *)
(* adds to the transaction's write set, and an invocation that throws is   *)
(* not committed: its write set is dropped.  What the handler asked of the *)
(* stub up to its return or throw is still recorded in last (the putState  *)
(* calls in order, and whether a getState followed a putState), so that    *)
(* the order in which a handler reads, validates and writes can be stated. *)
(*                                                                         *)
(* TeamSpec is the five-state chaincode called by two identities of the    *)
(* supplier organisation.  QuerySpec applies the query and history         *)
(* projections to the records a ledger iterator yields (variables yielded, *)
(* results), and EncoderSpec the encoding of ledger values to the objects  *)
(* a handler builds (variables entity, encoded).                           *)
(*                                                                         *)
(* ServerSpec is the single-org API server's lazy initialisation of its    *)
(* shared Fabric gateway (variables pc, sharedClient, sharedGateway,       *)
(* sharedNetwork, sharedContract, opened): every request runs the          *)
(* initialisation middleware, and requests interleave at its awaits.       *)
(***************************************************************************)
EXTENDS Integers, Sequences, FiniteSets, TLC

VARIABLES ledger, last, ledger2, last2, yielded, results, entity, encoded,
          pc, sharedClient, sharedGateway, sharedNetwork, sharedContract,
          opened

\* the module-level state of the API server
serverVars == <<pc, sharedClient, sharedGateway, sharedNetwork, sharedContract, opened>>

\* the state of the chaincodes, the projections and the encoder
chaincodeVars == <<ledger, last, ledger2, last2, yielded, results, entity, encoded>>

vars == <<ledger, last, ledger2, last2, yielded, results, entity, encoded, pc, sharedClient, sharedGateway, sharedNetwork, sharedContract, opened>>

(***************************************************************************)
(* Bounds and input sets                                                   *)
(***************************************************************************)

\* longest scanned-id list handed to AcceptDelivery
MaxScan == 2

\* one keyspace for fertilizer ids and delivery ids
Keys == {"F001", "D001", "K1"}

Org1 == "Org1MSP"
Org2 == "Org2MSP"
Org3 == "Org3MSP"
Orgs == {Org1, Org2, Org3}

User1Org1 == "x509::CN=User1@org1.example.com::L=Nairobi..."
User1Org2 == "x509::CN=User1@org2.example.com::L=Nairobi..."
User3Org3 == "x509::CN=User3@org3.example.com::L=Nairobi..."
User2Org1 == "x509::CN=User2@org1.example.com::L=Nairobi..."

\* ctx.clientIdentity of the invocations explored
Clients ==
    { [mspId |-> Org1, id |-> User1Org1],
      [mspId |-> Org2, id |-> User1Org2],
      [mspId |-> Org3, id |-> User3Org3] }

\* the same with a second identity of the supplier organisation
TeamClients == Clients \cup { [mspId |-> Org1, id |-> User2Org1] }

\* (organisation, identity) arguments naming an intended next owner
TargetOrgs == {Org2, Org3}
TargetIds == {User1Org2, User3Org3}

ProductTypes == {"UREA"}
Quantities == {50}

\* ctx.stub.getTxTimestamp(): the ledger-assigned logical time of the
\* invocation
Timestamps == {"T"}

\* scanned-id lists handed to AcceptDelivery (repetitions included)
ScanLists == UNION { [1..n -> Keys] : n \in 0..MaxScan }

(***************************************************************************)
(* Records                                                                 *)
(***************************************************************************)

\* a JavaScript undefined field value
Undefined == "undefined"

\* getState of a key that was never written
Absent == [docType |-> "absent"]

NoError == "none"

\* obj.field of a parsed record; undefined when the record has no such field
Field(rec, f) == IF f \in DOMAIN rec THEN rec[f] ELSE Undefined

\* the value of a deleted version, and of a key nothing was encoded for
EmptyText == ""

\* no projection has returned yet
NoResults ==
    [op |-> "none", err |-> NoError, entries |-> <<>>, iterator |-> "none"]

\* a JavaScript value: a string, an array, or an object whose fields are
\* held in insertion order
Str(s) == [t |-> "string", v |-> s]

Arr(items) == [t |-> "array", v |-> items]

Obj(fields) == [t |-> "object", v |-> fields]

\* no object has been built yet
NoEntity == Obj(<<>>)

\* the requests in flight at the API server
Requests == {"req1", "req2"}

\* the gRPC clients and the gateways the process can construct
GrpcClients == {"client1", "client2", "client3"}
Gateways == {"gateway1", "gateway2", "gateway3"}

\* let sharedClient; let sharedGateway; let sharedNetwork; let sharedContract;
ServerIdle ==
    /\ pc = [r \in Requests |-> "idle"]
    /\ sharedClient = Undefined
    /\ sharedGateway = Undefined
    /\ sharedNetwork = Undefined
    /\ sharedContract = Undefined
    /\ opened = [clients |-> {}, gateways |-> {}]

IsFertilizer(rec) == rec.docType = "fertilizer"
IsDelivery(rec) == rec.docType = "delivery"

(***************************************************************************)
(* ctx.stub                                                                *)
(***************************************************************************)

\* the stub of a fresh invocation over the committed world state
NewStub(world) ==
    [world |-> world, writes |-> <<>>, calls |-> <<>>, err |-> NoError]

\* the bytes ctx.stub.getState(key) returns: the committed value
StateOf(s, key) == s.world[key]

\* bytes && bytes.length > 0
NonEmpty(bytes) == bytes # Absent

\* await ctx.stub.getState(key)
GetState(s, key) == [s EXCEPT !.calls = Append(@, <<"get", key>>)]

\* await ctx.stub.putState(key, Buffer.from(...))
PutState(s, key, rec) ==
    [s EXCEPT !.writes = Append(@, [key |-> key, val |-> rec]),
              !.calls = Append(@, <<"put", key>>)]

\* throw new Error(...): the handler stops, the invocation fails
Throw(s, e) == [s EXCEPT !.err = e]

RECURSIVE ApplyWrites(_, _)
ApplyWrites(world, writes) ==
    IF writes = <<>> THEN world
    ELSE ApplyWrites([world EXCEPT ![Head(writes).key] = Head(writes).val],
                     Tail(writes))

\* the write set is committed although the invocation threw
TxResultKeepsWrites(s) == ApplyWrites(s.world, s.writes)

\* the world state after the invocation: committed only if nothing was thrown
TxResult(s) ==
    IF s.err = NoError THEN ApplyWrites(s.world, s.writes) ELSE s.world

\* fertilizer.docType = 'fertilizer'; putState(fertilizer.fertilizerId, ...)
PutFertilizer(s, fertilizer) ==
    PutState(s, fertilizer.fertilizerId,
             [fertilizer EXCEPT !.docType = "fertilizer"])

\* delivery.docType = 'delivery'; putState(delivery.deliveryId, ...)
PutDelivery(s, delivery) ==
    PutState(s, delivery.deliveryId,
             [delivery EXCEPT !.docType = "delivery"])

(***************************************************************************)
(* InitLedger                                                              *)
(***************************************************************************)

InitialFertilizer(timestamp) ==
    [docType |-> "fertilizer",
     fertilizerId |-> "F001",
     productType |-> "UREA",
     quantity |-> 50,
     currentOwnerOrg |-> Org1,
     currentOwnerId |-> User1Org1,
     deliveryId |-> "D001",
     status |-> "REGISTERED",
     history |-> << [timestamp |-> timestamp,
                     actorOrg |-> Org1,
                     actorId |-> User1Org1,
                     action |-> "INITIAL_REGISTRATION",
                     previousOwnerOrg |-> Undefined,
                     previousOwnerId |-> Undefined,
                     newOwnerOrg |-> Org1,
                     newOwnerId |-> User1Org1] >>]

InitialDelivery(timestamp) ==
    [docType |-> "delivery",
     deliveryId |-> "D001",
     supplierOrg |-> Org1,
     supplierId |-> User1Org1,
     currentTransporterOrg |-> Undefined,
     currentTransporterId |-> Undefined,
     agrodealerOrg |-> Org3,
     agrodealerId |-> User3Org3,
     fertilizerIds |-> <<"F001">>,
     status |-> "INITIATED",
     createdAt |-> timestamp,
     lastUpdated |-> timestamp]

InitLedger(world, timestamp) ==
    LET s0 == NewStub(world)
        s1 == PutFertilizer(s0, InitialFertilizer(timestamp))
    IN  PutDelivery(s1, InitialDelivery(timestamp))

(***************************************************************************)
(* InitDeliveryWithFertilizer                                              *)
(***************************************************************************)

RegistrationEvent(timestamp, client, action) ==
    [timestamp |-> timestamp,
     actorOrg |-> client.mspId,
     actorId |-> client.id,
     action |-> action,
     previousOwnerOrg |-> Undefined,
     previousOwnerId |-> Undefined,
     newOwnerOrg |-> client.mspId,
     newOwnerId |-> client.id]

NewFertilizer(timestamp, client, deliveryId, fertilizerId, productType, quantity, action) ==
    [docType |-> "fertilizer",
     fertilizerId |-> fertilizerId,
     productType |-> productType,
     quantity |-> quantity,
     currentOwnerOrg |-> client.mspId,
     currentOwnerId |-> client.id,
     deliveryId |-> deliveryId,
     status |-> "REGISTERED",
     history |-> << RegistrationEvent(timestamp, client, action) >>]

NewDelivery(timestamp, client, deliveryId, fertilizerId, agrodealerOrg, agrodealerId) ==
    [docType |-> "delivery",
     deliveryId |-> deliveryId,
     supplierOrg |-> client.mspId,
     supplierId |-> client.id,
     currentTransporterOrg |-> Undefined,
     currentTransporterId |-> Undefined,
     agrodealerOrg |-> agrodealerOrg,
     agrodealerId |-> agrodealerId,
     fertilizerIds |-> <<fertilizerId>>,
     status |-> "INITIATED",
     createdAt |-> timestamp,
     lastUpdated |-> timestamp]

\* the permission check lets the transporter organisation through as well
InitDeliveryWithFertilizerByTransporter(world, client, timestamp, deliveryId, fertilizerId, productType, quantity, agrodealerOrg, agrodealerId) ==
    LET s0 == NewStub(world)
    IN  IF client.mspId \notin {Org1, Org2}
        THEN Throw(s0, "Unauthorized")
        ELSE
        LET s1 == GetState(s0, fertilizerId)
        IN  IF NonEmpty(StateOf(s0, fertilizerId))
            THEN Throw(s1, "FertilizerAlreadyExists")
            ELSE
            LET s2 == PutFertilizer(s1,
                        NewFertilizer(timestamp, client, deliveryId,
                                      fertilizerId, productType, quantity,
                                      "REGISTERED_AND_INITIATED_DELIVERY"))
                s3 == GetState(s2, deliveryId)
            IN  IF NonEmpty(StateOf(s2, deliveryId))
                THEN Throw(s3, "DeliveryAlreadyExists")
                ELSE PutDelivery(s3,
                        NewDelivery(timestamp, client, deliveryId,
                                    fertilizerId, agrodealerOrg,
                                    agrodealerId))

InitDeliveryWithFertilizer(world, client, timestamp, deliveryId, fertilizerId, productType, quantity, agrodealerOrg, agrodealerId) ==
    LET s0 == NewStub(world)
    IN  IF client.mspId # Org1 THEN Throw(s0, "Unauthorized")
        ELSE
        LET s1 == GetState(s0, fertilizerId)
        IN  IF NonEmpty(StateOf(s0, fertilizerId))
            THEN Throw(s1, "FertilizerAlreadyExists")
            ELSE
            LET s2 == PutFertilizer(s1,
                        NewFertilizer(timestamp, client, deliveryId,
                                      fertilizerId, productType, quantity,
                                      "REGISTERED_AND_INITIATED_DELIVERY"))
                s3 == GetState(s2, deliveryId)
            IN  IF NonEmpty(StateOf(s2, deliveryId))
                THEN Throw(s3, "DeliveryAlreadyExists")
                ELSE PutDelivery(s3,
                        NewDelivery(timestamp, client, deliveryId,
                                    fertilizerId, agrodealerOrg,
                                    agrodealerId))

(***************************************************************************)
(* AddFertilizerToDelivery                                                 *)
(***************************************************************************)

\* the status of the delivery is not checked
AddFertilizerToDeliveryAnyStatus(world, client, timestamp, deliveryId, fertilizerId, productType, quantity) ==
    LET s0 == NewStub(world)
    IN  IF client.mspId # Org1 THEN Throw(s0, "Unauthorized")
        ELSE
        LET s1 == GetState(s0, deliveryId)
            delivery == StateOf(s0, deliveryId)
        IN  IF ~NonEmpty(delivery) THEN Throw(s1, "DeliveryNotFound")
            ELSE IF Field(delivery, "supplierOrg") # client.mspId
            THEN Throw(s1, "NotSupplier")
            ELSE
            LET s2 == GetState(s1, fertilizerId)
            IN  IF NonEmpty(StateOf(s1, fertilizerId))
                THEN Throw(s2, "FertilizerAlreadyExists")
                ELSE
                LET s3 == PutFertilizer(s2,
                            NewFertilizer(timestamp, client, deliveryId,
                                          fertilizerId, productType,
                                          quantity, "ADDED_TO_DELIVERY"))
                IN  PutDelivery(s3,
                        [delivery EXCEPT
                            !.fertilizerIds = Append(@, fertilizerId),
                            !.lastUpdated = timestamp])

\* the fertilizer id is not checked against the ledger
AddFertilizerToDeliveryOverExisting(world, client, timestamp, deliveryId, fertilizerId, productType, quantity) ==
    LET s0 == NewStub(world)
    IN  IF client.mspId # Org1 THEN Throw(s0, "Unauthorized")
        ELSE
        LET s1 == GetState(s0, deliveryId)
            delivery == StateOf(s0, deliveryId)
        IN  IF ~NonEmpty(delivery) THEN Throw(s1, "DeliveryNotFound")
            ELSE IF Field(delivery, "supplierOrg") # client.mspId
            THEN Throw(s1, "NotSupplier")
            ELSE IF Field(delivery, "status") # "INITIATED"
            THEN Throw(s1, "InvalidState")
            ELSE
            LET s2 == GetState(s1, fertilizerId)
            IN  LET s3 == PutFertilizer(s2,
                            NewFertilizer(timestamp, client, deliveryId,
                                          fertilizerId, productType,
                                          quantity, "ADDED_TO_DELIVERY"))
                IN  PutDelivery(s3,
                        [delivery EXCEPT
                            !.fertilizerIds = Append(@, fertilizerId),
                            !.lastUpdated = timestamp])

AddFertilizerToDelivery(world, client, timestamp, deliveryId, fertilizerId, productType, quantity) ==
    LET s0 == NewStub(world)
    IN  IF client.mspId # Org1 THEN Throw(s0, "Unauthorized")
        ELSE
        LET s1 == GetState(s0, deliveryId)
            delivery == StateOf(s0, deliveryId)
        IN  IF ~NonEmpty(delivery) THEN Throw(s1, "DeliveryNotFound")
            ELSE IF Field(delivery, "supplierOrg") # client.mspId
            THEN Throw(s1, "NotSupplier")
            ELSE IF Field(delivery, "status") # "INITIATED"
            THEN Throw(s1, "InvalidState")
            ELSE
            LET s2 == GetState(s1, fertilizerId)
            IN  IF NonEmpty(StateOf(s1, fertilizerId))
                THEN Throw(s2, "FertilizerAlreadyExists")
                ELSE
                LET s3 == PutFertilizer(s2,
                            NewFertilizer(timestamp, client, deliveryId,
                                          fertilizerId, productType,
                                          quantity, "ADDED_TO_DELIVERY"))
                IN  PutDelivery(s3,
                        [delivery EXCEPT
                            !.fertilizerIds = Append(@, fertilizerId),
                            !.lastUpdated = timestamp])

(***************************************************************************)
(* TransferDelivery                                                        *)
(***************************************************************************)

\* the loop of TransferDelivery hands the units to the new owner at once
RECURSIVE TransferUnitsHandingOver(_, _, _, _, _, _, _, _)
TransferUnitsHandingOver(s, ids, i, client, timestamp, transferAction, newOwnerOrg, newOwnerId) ==
    IF i > Len(ids) THEN s
    ELSE
    LET s1 == GetState(s, ids[i])
        fertilizer == StateOf(s, ids[i])
    IN  IF ~NonEmpty(fertilizer) THEN Throw(s1, "FertilizerNotFound")
        ELSE IF Field(fertilizer, "currentOwnerOrg") # client.mspId
        THEN Throw(s1, "OwnershipMismatch")
        ELSE
        LET updated ==
                [fertilizer EXCEPT
                    !.status = "IN_DELIVERY",
                    !.currentOwnerOrg = newOwnerOrg,
                    !.currentOwnerId = newOwnerId,
                    !.history = Append(@,
                        [timestamp |-> timestamp,
                         actorOrg |-> client.mspId,
                         actorId |-> client.id,
                         action |-> transferAction,
                         previousOwnerOrg |-> fertilizer.currentOwnerOrg,
                         previousOwnerId |-> fertilizer.currentOwnerId,
                         newOwnerOrg |-> newOwnerOrg,
                         newOwnerId |-> newOwnerId])]
        IN  TransferUnitsHandingOver(PutFertilizer(s1, updated), ids, i + 1, client,
                          timestamp, transferAction, newOwnerOrg, newOwnerId)

\* the per-unit loop of TransferDelivery, from index i on
RECURSIVE TransferUnits(_, _, _, _, _, _, _, _)
TransferUnits(s, ids, i, client, timestamp, transferAction, newOwnerOrg, newOwnerId) ==
    IF i > Len(ids) THEN s
    ELSE
    LET s1 == GetState(s, ids[i])
        fertilizer == StateOf(s, ids[i])
    IN  IF ~NonEmpty(fertilizer) THEN Throw(s1, "FertilizerNotFound")
        ELSE IF Field(fertilizer, "currentOwnerOrg") # client.mspId
        THEN Throw(s1, "OwnershipMismatch")
        ELSE
        LET updated ==
                [fertilizer EXCEPT
                    !.status = "IN_DELIVERY",
                    !.history = Append(@,
                        [timestamp |-> timestamp,
                         actorOrg |-> client.mspId,
                         actorId |-> client.id,
                         action |-> transferAction,
                         previousOwnerOrg |-> fertilizer.currentOwnerOrg,
                         previousOwnerId |-> fertilizer.currentOwnerId,
                         newOwnerOrg |-> newOwnerOrg,
                         newOwnerId |-> newOwnerId])]
        IN  TransferUnits(PutFertilizer(s1, updated), ids, i + 1, client,
                          timestamp, transferAction, newOwnerOrg, newOwnerId)

\* the transporter branch taken also while the delivery is already on its
\* way to the agrodealer
TransferPhaseWhileInTransit(callerOrg, status) ==
    IF callerOrg = Org1 /\ status = "INITIATED"
    THEN [newDeliveryStatus |-> "IN_TRANSIT_TO_TRANSPORTER",
          transferAction |-> "TRANSFER_INITIATED_TO_TRANSPORTER",
          expectedNewOwnerOrg |-> Org2]
    ELSE IF callerOrg = Org2
            /\ status \in {"TRANSFERRED_TO_TRANSPORTER",
                           "IN_TRANSIT_TO_AGRODEALER"}
    THEN [newDeliveryStatus |-> "IN_TRANSIT_TO_AGRODEALER",
          transferAction |-> "TRANSFER_INITIATED_TO_AGRODEALER",
          expectedNewOwnerOrg |-> Org3]
    ELSE [newDeliveryStatus |-> Undefined,
          transferAction |-> Undefined,
          expectedNewOwnerOrg |-> Undefined]

\* the branch of TransferDelivery taken for (caller organisation, status)
TransferPhase(callerOrg, status) ==
    IF callerOrg = Org1 /\ status = "INITIATED"
    THEN [newDeliveryStatus |-> "IN_TRANSIT_TO_TRANSPORTER",
          transferAction |-> "TRANSFER_INITIATED_TO_TRANSPORTER",
          expectedNewOwnerOrg |-> Org2]
    ELSE IF callerOrg = Org2 /\ status = "TRANSFERRED_TO_TRANSPORTER"
    THEN [newDeliveryStatus |-> "IN_TRANSIT_TO_AGRODEALER",
          transferAction |-> "TRANSFER_INITIATED_TO_AGRODEALER",
          expectedNewOwnerOrg |-> Org3]
    ELSE [newDeliveryStatus |-> Undefined,
          transferAction |-> Undefined,
          expectedNewOwnerOrg |-> Undefined]

\* a transfer that marks every unit the caller's organisation owns
TransferDeliveryOfOwnedUnits(world, client, timestamp, deliveryId, newOwnerOrg, newOwnerId) ==
    LET s0 == NewStub(world)
        s1 == GetState(s0, deliveryId)
        delivery == StateOf(s0, deliveryId)
        phase == TransferPhase(client.mspId, Field(delivery, "status"))
    IN  IF ~NonEmpty(delivery) THEN Throw(s1, "DeliveryNotFound")
        ELSE IF phase.newDeliveryStatus = Undefined
        THEN Throw(s1, "UnauthorizedOrInvalidState")
        ELSE IF newOwnerOrg # phase.expectedNewOwnerOrg
        THEN Throw(s1, "InvalidTarget")
        ELSE
        LET assigned ==
                IF phase.expectedNewOwnerOrg = Org2
                THEN [delivery EXCEPT !.currentTransporterOrg = newOwnerOrg,
                                      !.currentTransporterId = newOwnerId]
                ELSE delivery
            owned == { k \in Keys : /\ IsFertilizer(world[k])
                                     /\ world[k].currentOwnerOrg
                                          = client.mspId }
            ownedIds == CHOOSE q \in [1..Cardinality(owned) -> owned] :
                            \A m, n \in 1..Cardinality(owned) :
                                q[m] = q[n] => m = n
            s2 == TransferUnits(s1, ownedIds, 1, client,
                                timestamp, phase.transferAction, newOwnerOrg,
                                newOwnerId)
        IN  IF s2.err # NoError THEN s2
            ELSE PutDelivery(s2,
                    [assigned EXCEPT !.status = phase.newDeliveryStatus,
                                     !.lastUpdated = timestamp])

TransferDelivery(world, client, timestamp, deliveryId, newOwnerOrg, newOwnerId) ==
    LET s0 == NewStub(world)
        s1 == GetState(s0, deliveryId)
        delivery == StateOf(s0, deliveryId)
        phase == TransferPhase(client.mspId, Field(delivery, "status"))
    IN  IF ~NonEmpty(delivery) THEN Throw(s1, "DeliveryNotFound")
        ELSE IF phase.newDeliveryStatus = Undefined
        THEN Throw(s1, "UnauthorizedOrInvalidState")
        ELSE IF newOwnerOrg # phase.expectedNewOwnerOrg
        THEN Throw(s1, "InvalidTarget")
        ELSE
        LET assigned ==
                IF phase.expectedNewOwnerOrg = Org2
                THEN [delivery EXCEPT !.currentTransporterOrg = newOwnerOrg,
                                      !.currentTransporterId = newOwnerId]
                ELSE delivery
            s2 == TransferUnits(s1, assigned.fertilizerIds, 1, client,
                                timestamp, phase.transferAction, newOwnerOrg,
                                newOwnerId)
        IN  IF s2.err # NoError THEN s2
            ELSE PutDelivery(s2,
                    [assigned EXCEPT !.status = phase.newDeliveryStatus,
                                     !.lastUpdated = timestamp])

(***************************************************************************)
(* AcceptDelivery                                                          *)
(***************************************************************************)

\* scannedFertilizerIds.includes(id)
Includes(list, id) == \E j \in 1..Len(list) : list[j] = id

\* the content check without the comparison of the lengths
ContentMatchesIgnoringLength(expected, scanned) ==
    \A j \in 1..Len(expected) : Includes(scanned, expected[j])

\* the content check of AcceptDelivery: lengths agree and every expected id
\* was scanned
ContentMatches(expected, scanned) ==
    /\ Len(expected) = Len(scanned)
    /\ \A j \in 1..Len(expected) : Includes(scanned, expected[j])

\* the branch of AcceptDelivery taken for (status, caller organisation)
AcceptPhase(delivery, acceptorOrg) ==
    IF Field(delivery, "status") = "IN_TRANSIT_TO_TRANSPORTER"
       /\ acceptorOrg = Org2
    THEN [previousOwnerOrg |-> delivery.supplierOrg,
          previousOwnerId |-> delivery.supplierId,
          newDeliveryStatus |-> "TRANSFERRED_TO_TRANSPORTER",
          acceptAction |-> "RECEIVED_BY_TRANSPORTER",
          assignedId |-> delivery.currentTransporterId]
    ELSE IF Field(delivery, "status") = "IN_TRANSIT_TO_AGRODEALER"
            /\ acceptorOrg = Org3
    THEN [previousOwnerOrg |-> delivery.currentTransporterOrg,
          previousOwnerId |-> delivery.currentTransporterId,
          newDeliveryStatus |-> "COMPLETED",
          acceptAction |-> "RECEIVED_BY_AGRODEALER",
          assignedId |-> delivery.agrodealerId]
    ELSE [previousOwnerOrg |-> Undefined,
          previousOwnerId |-> Undefined,
          newDeliveryStatus |-> Undefined,
          acceptAction |-> Undefined,
          assignedId |-> Undefined]

\* the per-unit loop of AcceptDelivery, from index i on
RECURSIVE AcceptUnits(_, _, _, _, _, _)
AcceptUnits(s, ids, i, client, timestamp, phase) ==
    IF i > Len(ids) THEN s
    ELSE
    LET s1 == GetState(s, ids[i])
        fertilizer == StateOf(s, ids[i])
    IN  IF ~NonEmpty(fertilizer) THEN Throw(s1, "FertilizerNotFound")
        ELSE IF Field(fertilizer, "currentOwnerOrg") # phase.previousOwnerOrg
        THEN Throw(s1, "OwnershipMismatch")
        ELSE IF Field(fertilizer, "status") # "IN_DELIVERY"
        THEN Throw(s1, "NotInDelivery")
        ELSE
        LET updated ==
                [fertilizer EXCEPT
                    !.currentOwnerOrg = client.mspId,
                    !.currentOwnerId = client.id,
                    !.status = IF client.mspId = Org3
                               THEN "DELIVERED_TO_AGRODEALER"
                               ELSE "TRANSFERRED_TO_NEXT_PARTY",
                    !.history = Append(@,
                        [timestamp |-> timestamp,
                         actorOrg |-> client.mspId,
                         actorId |-> client.id,
                         action |-> phase.acceptAction,
                         previousOwnerOrg |-> phase.previousOwnerOrg,
                         previousOwnerId |-> phase.previousOwnerId,
                         newOwnerOrg |-> client.mspId,
                         newOwnerId |-> client.id])]
        IN  AcceptUnits(PutFertilizer(s1, updated), ids, i + 1, client,
                        timestamp, phase)

\* the caller's identity is not compared with the assigned identity
AcceptDeliveryByAnyIdentity(world, client, timestamp, deliveryId, scannedFertilizerIds) ==
    LET s0 == NewStub(world)
        s1 == GetState(s0, deliveryId)
        delivery == StateOf(s0, deliveryId)
        phase == AcceptPhase(delivery, client.mspId)
    IN  IF ~NonEmpty(delivery) THEN Throw(s1, "DeliveryNotFound")
        ELSE IF phase.newDeliveryStatus = Undefined
        THEN Throw(s1, "UnauthorizedOrInvalidState")
        ELSE
        LET confirmed ==
                IF phase.newDeliveryStatus = "COMPLETED"
                THEN [delivery EXCEPT !.agrodealerOrg = client.mspId,
                                      !.agrodealerId = client.id]
                ELSE [delivery EXCEPT !.currentTransporterOrg = client.mspId,
                                      !.currentTransporterId = client.id]
        IN  IF ~ContentMatches(confirmed.fertilizerIds, scannedFertilizerIds)
            THEN Throw(s1, "ContentMismatch")
            ELSE
            LET s2 == AcceptUnits(s1, confirmed.fertilizerIds, 1, client,
                                  timestamp, phase)
            IN  IF s2.err # NoError THEN s2
                ELSE PutDelivery(s2,
                        [confirmed EXCEPT !.status = phase.newDeliveryStatus,
                                          !.lastUpdated = timestamp])

AcceptDelivery(world, client, timestamp, deliveryId, scannedFertilizerIds) ==
    LET s0 == NewStub(world)
        s1 == GetState(s0, deliveryId)
        delivery == StateOf(s0, deliveryId)
        phase == AcceptPhase(delivery, client.mspId)
    IN  IF ~NonEmpty(delivery) THEN Throw(s1, "DeliveryNotFound")
        ELSE IF phase.newDeliveryStatus = Undefined
        THEN Throw(s1, "UnauthorizedOrInvalidState")
        ELSE IF phase.assignedId # client.id
        THEN Throw(s1, "RecipientMismatch")
        ELSE
        LET confirmed ==
                IF phase.newDeliveryStatus = "COMPLETED"
                THEN [delivery EXCEPT !.agrodealerOrg = client.mspId,
                                      !.agrodealerId = client.id]
                ELSE [delivery EXCEPT !.currentTransporterOrg = client.mspId,
                                      !.currentTransporterId = client.id]
        IN  IF ~ContentMatches(confirmed.fertilizerIds, scannedFertilizerIds)
            THEN Throw(s1, "ContentMismatch")
            ELSE
            LET s2 == AcceptUnits(s1, confirmed.fertilizerIds, 1, client,
                                  timestamp, phase)
            IN  IF s2.err # NoError THEN s2
                ELSE PutDelivery(s2,
                        [confirmed EXCEPT !.status = phase.newDeliveryStatus,
                                          !.lastUpdated = timestamp])

(***************************************************************************)
(* Invocations                                                             *)
(***************************************************************************)

\* the putState calls of an invocation, in the order issued: key and docType
PutsOf(s) ==
    [j \in 1..Len(s.writes) |->
        [key |-> s.writes[j].key, docType |-> s.writes[j].val.docType]]

\* some getState was issued after a putState
LateRead(s) ==
    \E i, j \in 1..Len(s.calls) :
        i < j /\ s.calls[i][1] = "put" /\ s.calls[j][1] = "get"

NoCall == [op |-> "none", err |-> NoError, puts |-> <<>>, lateRead |-> FALSE]

\* what is remembered of an ended invocation
Remember(op, s) ==
    [op |-> op, err |-> s.err, puts |-> PutsOf(s), lateRead |-> LateRead(s)]

Init ==
    /\ ledger = [k \in Keys |-> Absent]
    /\ last = NoCall
    /\ ledger2 = [k \in Keys \cup Orgs |-> Absent]
    /\ last2 = NoCall
    /\ yielded = <<>>
    /\ results = NoResults
    /\ entity = NoEntity
    /\ encoded = EmptyText
    /\ ServerIdle

InitLedgerTx ==
    \E timestamp \in Timestamps :
        LET s == InitLedger(ledger, timestamp)
        IN  /\ ledger' = TxResult(s)
            /\ last' = Remember("InitLedger", s)
            /\ UNCHANGED <<ledger2, last2, yielded, results, entity, encoded>>
            /\ UNCHANGED serverVars

InitDeliveryWithFertilizerTx ==
    \E client \in Clients, timestamp \in Timestamps, deliveryId \in Keys,
       fertilizerId \in Keys, productType \in ProductTypes,
       quantity \in Quantities, agrodealerOrg \in TargetOrgs,
       agrodealerId \in TargetIds :
        LET s == InitDeliveryWithFertilizer(ledger, client, timestamp,
                                            deliveryId, fertilizerId,
                                            productType, quantity,
                                            agrodealerOrg, agrodealerId)
        IN  /\ ledger' = TxResult(s)
            /\ last' = Remember("InitDeliveryWithFertilizer", s)
            /\ UNCHANGED <<ledger2, last2, yielded, results, entity, encoded>>
            /\ UNCHANGED serverVars

AddFertilizerToDeliveryTx ==
    \E client \in Clients, timestamp \in Timestamps, deliveryId \in Keys,
       fertilizerId \in Keys, productType \in ProductTypes,
       quantity \in Quantities :
        LET s == AddFertilizerToDelivery(ledger, client, timestamp,
                                         deliveryId, fertilizerId,
                                         productType, quantity)
        IN  /\ ledger' = TxResult(s)
            /\ last' = Remember("AddFertilizerToDelivery", s)
            /\ UNCHANGED <<ledger2, last2, yielded, results, entity, encoded>>
            /\ UNCHANGED serverVars

TransferDeliveryTx ==
    \E client \in Clients, timestamp \in Timestamps, deliveryId \in Keys,
       newOwnerOrg \in TargetOrgs, newOwnerId \in TargetIds :
        LET s == TransferDelivery(ledger, client, timestamp, deliveryId,
                                  newOwnerOrg, newOwnerId)
        IN  /\ ledger' = TxResult(s)
            /\ last' = Remember("TransferDelivery", s)
            /\ UNCHANGED <<ledger2, last2, yielded, results, entity, encoded>>
            /\ UNCHANGED serverVars

AcceptDeliveryTx ==
    \E client \in Clients, timestamp \in Timestamps, deliveryId \in Keys,
       scanned \in ScanLists :
        LET s == AcceptDelivery(ledger, client, timestamp, deliveryId,
                                scanned)
        IN  /\ ledger' = TxResult(s)
            /\ last' = Remember("AcceptDelivery", s)
            /\ UNCHANGED <<ledger2, last2, yielded, results, entity, encoded>>
            /\ UNCHANGED serverVars

Next ==
    \/ InitLedgerTx
    \/ InitDeliveryWithFertilizerTx
    \/ AddFertilizerToDeliveryTx
    \/ TransferDeliveryTx
    \/ AcceptDeliveryTx

Spec == Init /\ [][Next]_vars

(***************************************************************************)
(* The five-state chaincode invoked by two identities of the supplier      *)
(* organisation, on the one delivery D001 with the units F001 and K1.      *)
(***************************************************************************)

TeamDeliveryIds == {"D001"}
TeamFertilizerIds == {"F001", "K1"}

TeamInitDeliveryWithFertilizerTx ==
    \E client \in TeamClients, timestamp \in Timestamps,
       deliveryId \in TeamDeliveryIds, fertilizerId \in TeamFertilizerIds,
       productType \in ProductTypes, quantity \in Quantities,
       agrodealerOrg \in TargetOrgs, agrodealerId \in TargetIds :
        LET s == InitDeliveryWithFertilizer(ledger, client, timestamp,
                    deliveryId, fertilizerId, productType, quantity,
                    agrodealerOrg, agrodealerId)
        IN  /\ ledger' = TxResult(s)
            /\ last' = Remember("InitDeliveryWithFertilizer", s)
            /\ UNCHANGED <<ledger2, last2, yielded, results, entity, encoded>>
            /\ UNCHANGED serverVars

TeamAddFertilizerToDeliveryTx ==
    \E client \in TeamClients, timestamp \in Timestamps,
       deliveryId \in TeamDeliveryIds, fertilizerId \in TeamFertilizerIds,
       productType \in ProductTypes, quantity \in Quantities :
        LET s == AddFertilizerToDelivery(ledger, client, timestamp,
                    deliveryId, fertilizerId, productType, quantity)
        IN  /\ ledger' = TxResult(s)
            /\ last' = Remember("AddFertilizerToDelivery", s)
            /\ UNCHANGED <<ledger2, last2, yielded, results, entity, encoded>>
            /\ UNCHANGED serverVars

TeamTransferDeliveryTx ==
    \E client \in TeamClients, timestamp \in Timestamps,
       deliveryId \in TeamDeliveryIds, newOwnerOrg \in TargetOrgs,
       newOwnerId \in TargetIds :
        LET s == TransferDelivery(ledger, client, timestamp, deliveryId,
                                  newOwnerOrg, newOwnerId)
        IN  /\ ledger' = TxResult(s)
            /\ last' = Remember("TransferDelivery", s)
            /\ UNCHANGED <<ledger2, last2, yielded, results, entity, encoded>>
            /\ UNCHANGED serverVars

TeamAcceptDeliveryTx ==
    \E client \in TeamClients, timestamp \in Timestamps,
       deliveryId \in TeamDeliveryIds, scanned \in ScanLists :
        LET s == AcceptDelivery(ledger, client, timestamp, deliveryId,
                                scanned)
        IN  /\ ledger' = TxResult(s)
            /\ last' = Remember("AcceptDelivery", s)
            /\ UNCHANGED <<ledger2, last2, yielded, results, entity, encoded>>
            /\ UNCHANGED serverVars

TeamNext ==
    \/ InitLedgerTx
    \/ TeamInitDeliveryWithFertilizerTx
    \/ TeamAddFertilizerToDeliveryTx
    \/ TeamTransferDeliveryTx
    \/ TeamAcceptDeliveryTx

TeamSpec == Init /\ [][TeamNext]_vars

(***************************************************************************)
(* The two-hop chaincode (assetTransfer.js)                                *)
(***************************************************************************)

\* obj.field = value on a parsed record
SetField(rec, f, v) ==
    [x \in DOMAIN rec \cup {f} |-> IF x = f THEN v ELSE rec[x]]

OrgEntities ==
    << [docType |-> "organizationEntity", orgId |-> Org1,
        name |-> "AgroChain Chemicals", role |-> "Supplier"],
       [docType |-> "organizationEntity", orgId |-> Org2,
        name |-> "AgroChain Logistics", role |-> "Transporter"],
       [docType |-> "organizationEntity", orgId |-> Org3,
        name |-> "AgroChain Dealers", role |-> "Agrodealer"] >>

RECURSIVE PutOrgEntities(_, _)
PutOrgEntities(s, i) ==
    IF i > Len(OrgEntities) THEN s
    ELSE PutOrgEntities(PutState(s, OrgEntities[i].orgId, OrgEntities[i]),
                        i + 1)

TwoHopInitLedger(world) == PutOrgEntities(NewStub(world), 1)

\* _getOrgFriendlyName: the stub after the read (with the error, if thrown)
GetOrgEntity(s, orgId) ==
    LET s1 == GetState(s, orgId)
    IN  IF NonEmpty(StateOf(s, orgId)) THEN s1
        ELSE Throw(s1, "OrgNotFound")

\* _getOrgFriendlyName: orgEntity.name
OrgFriendlyName(s, orgId) == Field(StateOf(s, orgId), "name")

\* the entry of delivery.fertilizerUnits
FertilizerUnit(fertilizerId, productType, quantity) ==
    [fertilizerId |-> fertilizerId, productType |-> productType,
     quantity |-> quantity]

TwoHopFertilizer(fertilizerId, productType, quantity, ownerOrg, ownerName) ==
    [fertilizerId |-> fertilizerId,
     docType |-> "fertilizer",
     productType |-> productType,
     quantity |-> quantity,
     currentOwnerOrg |-> ownerOrg,
     currentOwnerName |-> ownerName]

TwoHopInitDeliveryWithFertilizer(world, callingOrg, deliveryId, fertilizerId, productType, quantity, agrodealerOrg) ==
    LET s0 == NewStub(world)
    IN  IF callingOrg # Org1 THEN Throw(s0, "Unauthorized")
        ELSE
        LET s1 == GetState(s0, deliveryId)
        IN  IF NonEmpty(StateOf(s0, deliveryId))
            THEN Throw(s1, "DeliveryAlreadyExists")
            ELSE
            LET s2 == GetState(s1, fertilizerId)
            IN  IF NonEmpty(StateOf(s1, fertilizerId))
                THEN Throw(s2, "FertilizerAlreadyExists")
                ELSE
                LET s3 == GetOrgEntity(s2, callingOrg)
                IN  IF s3.err # NoError THEN s3
                    ELSE
                    LET s4 == GetOrgEntity(s3, agrodealerOrg)
                    IN  IF s4.err # NoError THEN s4
                        ELSE
                        LET supplierName == OrgFriendlyName(s4, callingOrg)
                            delivery ==
                                [deliveryId |-> deliveryId,
                                 docType |-> "delivery",
                                 status |-> "INITIATED",
                                 ownerOrg |-> callingOrg,
                                 ownerName |-> supplierName,
                                 targetOrg |-> agrodealerOrg,
                                 targetName |->
                                    OrgFriendlyName(s4, agrodealerOrg),
                                 fertilizerUnits |->
                                    << FertilizerUnit(fertilizerId,
                                                      productType,
                                                      quantity) >>]
                            s5 == PutState(s4, deliveryId, delivery)
                        IN  PutState(s5, fertilizerId,
                                TwoHopFertilizer(fertilizerId, productType,
                                                 quantity, callingOrg,
                                                 supplierName))

TwoHopAddFertilizerToDelivery(world, callingOrg, deliveryId, fertilizerId, productType, quantity) ==
    LET s0 == NewStub(world)
        s1 == GetState(s0, deliveryId)
        delivery == StateOf(s0, deliveryId)
    IN  IF ~NonEmpty(delivery) THEN Throw(s1, "DeliveryNotFound")
        ELSE IF Field(delivery, "ownerOrg") # callingOrg
        THEN LET s2 == GetOrgEntity(s1, callingOrg)
             IN  IF s2.err # NoError THEN s2 ELSE Throw(s2, "Unauthorized")
        ELSE
        LET s2 == GetState(s1, fertilizerId)
        IN  IF NonEmpty(StateOf(s1, fertilizerId))
            THEN Throw(s2, "FertilizerAlreadyExists")
            ELSE
            LET updated ==
                    [delivery EXCEPT !.fertilizerUnits =
                        Append(@, FertilizerUnit(fertilizerId, productType,
                                                 quantity))]
                s3 == PutState(s2, deliveryId, updated)
            IN  PutState(s3, fertilizerId,
                    TwoHopFertilizer(fertilizerId, productType, quantity,
                                     callingOrg, delivery.ownerName))

\* a loop that stops after the first unit
ReassignUnitsFirstOnly(s, units, i, ownerOrg, ownerName) ==
    IF i > Len(units) THEN s
    ELSE
    LET id == units[i].fertilizerId
        s1 == GetState(s, id)
        fertilizer == StateOf(s, id)
    IN  IF NonEmpty(fertilizer)
        THEN PutState(s1, id,
                SetField(SetField(fertilizer, "currentOwnerOrg", ownerOrg),
                         "currentOwnerName", ownerName))
        ELSE s1

\* the loop over delivery.fertilizerUnits that hands every unit to the owner
RECURSIVE ReassignUnits(_, _, _, _, _)
ReassignUnits(s, units, i, ownerOrg, ownerName) ==
    IF i > Len(units) THEN s
    ELSE
    LET id == units[i].fertilizerId
        s1 == GetState(s, id)
        fertilizer == StateOf(s, id)
    IN  IF NonEmpty(fertilizer)
        THEN ReassignUnits(
                PutState(s1, id,
                    SetField(SetField(fertilizer, "currentOwnerOrg",
                                      ownerOrg),
                             "currentOwnerName", ownerName)),
                units, i + 1, ownerOrg, ownerName)
        ELSE ReassignUnits(s1, units, i + 1, ownerOrg, ownerName)

TwoHopTransferDelivery(world, callingOrg, deliveryId, newOwnerOrg) ==
    LET s0 == NewStub(world)
        s1 == GetState(s0, deliveryId)
        delivery == StateOf(s0, deliveryId)
    IN  IF ~NonEmpty(delivery) THEN Throw(s1, "DeliveryNotFound")
        ELSE IF Field(delivery, "ownerOrg") # callingOrg
        THEN LET s2 == GetOrgEntity(s1, callingOrg)
             IN  IF s2.err # NoError THEN s2 ELSE Throw(s2, "Unauthorized")
        ELSE
        LET s2 == GetOrgEntity(s1, newOwnerOrg)
        IN  IF s2.err # NoError THEN s2
            ELSE
            LET newOwnerName == OrgFriendlyName(s2, newOwnerOrg)
                updated == [delivery EXCEPT !.status = "TRANSFERRED",
                                            !.ownerOrg = newOwnerOrg,
                                            !.ownerName = newOwnerName]
                s3 == PutState(s2, deliveryId, updated)
            IN  ReassignUnits(s3, updated.fertilizerUnits, 1, newOwnerOrg,
                              newOwnerName)

\* expectedFertilizerIds.filter((id) => !scannedFertilizerIds.includes(id))
NotIncluded(list, other) ==
    SelectSeq(list, LAMBDA id : ~Includes(other, id))

TwoHopAcceptDelivery(world, callingOrg, deliveryId, scannedFertilizerIds) ==
    LET s0 == NewStub(world)
        s1 == GetState(s0, deliveryId)
        delivery == StateOf(s0, deliveryId)
    IN  IF ~NonEmpty(delivery) THEN Throw(s1, "DeliveryNotFound")
        ELSE IF Field(delivery, "status") # "TRANSFERRED"
        THEN Throw(s1, "NotTransferred")
        ELSE IF Field(delivery, "targetOrg") # callingOrg
        THEN LET s2 == GetOrgEntity(s1, callingOrg)
             IN  IF s2.err # NoError THEN s2 ELSE Throw(s2, "Unauthorized")
        ELSE
        LET expectedFertilizerIds ==
                [j \in 1..Len(delivery.fertilizerUnits) |->
                    delivery.fertilizerUnits[j].fertilizerId]
            missingScanned ==
                NotIncluded(expectedFertilizerIds, scannedFertilizerIds)
            extraScanned ==
                NotIncluded(scannedFertilizerIds, expectedFertilizerIds)
        IN  IF Len(missingScanned) > 0 THEN Throw(s1, "MissingScanned")
            ELSE IF Len(extraScanned) > 0 THEN Throw(s1, "ExtraScanned")
            ELSE
            LET s2 == GetOrgEntity(s1, callingOrg)
            IN  IF s2.err # NoError THEN s2
                ELSE
                LET ownerName == OrgFriendlyName(s2, callingOrg)
                    updated == [delivery EXCEPT !.status = "ACCEPTED",
                                                !.ownerOrg = callingOrg,
                                                !.ownerName = ownerName,
                                                !.targetOrg = "",
                                                !.targetName = ""]
                    s3 == PutState(s2, deliveryId, updated)
                IN  ReassignUnits(s3, updated.fertilizerUnits, 1,
                                  callingOrg, ownerName)

TwoHopInitLedgerTx ==
    LET s == TwoHopInitLedger(ledger2)
    IN  /\ ledger2' = TxResult(s)
        /\ last2' = Remember("InitLedger", s)
        /\ UNCHANGED <<ledger, last, yielded, results, entity, encoded>>
        /\ UNCHANGED serverVars

TwoHopInitDeliveryWithFertilizerTx ==
    \E callingOrg \in Orgs, deliveryId \in Keys, fertilizerId \in Keys,
       productType \in ProductTypes, quantity \in Quantities,
       agrodealerOrg \in Orgs :
        LET s == TwoHopInitDeliveryWithFertilizer(ledger2, callingOrg,
                    deliveryId, fertilizerId, productType, quantity,
                    agrodealerOrg)
        IN  /\ ledger2' = TxResult(s)
            /\ last2' = Remember("InitDeliveryWithFertilizer", s)
            /\ UNCHANGED <<ledger, last, yielded, results, entity, encoded>>
            /\ UNCHANGED serverVars

TwoHopAddFertilizerToDeliveryTx ==
    \E callingOrg \in Orgs, deliveryId \in Keys, fertilizerId \in Keys,
       productType \in ProductTypes, quantity \in Quantities :
        LET s == TwoHopAddFertilizerToDelivery(ledger2, callingOrg,
                    deliveryId, fertilizerId, productType, quantity)
        IN  /\ ledger2' = TxResult(s)
            /\ last2' = Remember("AddFertilizerToDelivery", s)
            /\ UNCHANGED <<ledger, last, yielded, results, entity, encoded>>
            /\ UNCHANGED serverVars

TwoHopTransferDeliveryTx ==
    \E callingOrg \in Orgs, deliveryId \in Keys, newOwnerOrg \in Orgs :
        LET s == TwoHopTransferDelivery(ledger2, callingOrg, deliveryId,
                                        newOwnerOrg)
        IN  /\ ledger2' = TxResult(s)
            /\ last2' = Remember("TransferDelivery", s)
            /\ UNCHANGED <<ledger, last, yielded, results, entity, encoded>>
            /\ UNCHANGED serverVars

TwoHopAcceptDeliveryTx ==
    \E callingOrg \in Orgs, deliveryId \in Keys, scanned \in ScanLists :
        LET s == TwoHopAcceptDelivery(ledger2, callingOrg, deliveryId,
                                      scanned)
        IN  /\ ledger2' = TxResult(s)
            /\ last2' = Remember("AcceptDelivery", s)
            /\ UNCHANGED <<ledger, last, yielded, results, entity, encoded>>
            /\ UNCHANGED serverVars

TwoHopNext ==
    \/ TwoHopInitLedgerTx
    \/ TwoHopInitDeliveryWithFertilizerTx
    \/ TwoHopAddFertilizerToDeliveryTx
    \/ TwoHopTransferDeliveryTx
    \/ TwoHopAcceptDeliveryTx

TwoHopSpec == Init /\ [][TwoHopNext]_vars

(***************************************************************************)
(* Query and history projections.  The ledger iterator is an input: the    *)
(* records it will yield are held in yielded, and results holds what the   *)
(* last projection returned.                                               *)
(***************************************************************************)

\* longest sequence of records an iterator yields
MaxYield == 2

QueryKeys == {"F001", "K1"}

TxIds == {"tx1", "tx2"}

\* the bytes stored for a fertilizer by stringify(sortKeysRecursive(...))
StoredText(key) ==
    "{\"docType\":\"fertilizer\",\"fertilizerId\":\"" \o key \o "\"}"

\* bytes that are not JSON
MalformedText == "{\"docType\":"

\* one record of an iterator: key and value for a query (result.value.key,
\* result.value.value), tx_id, timestamp, is_delete and value for the
\* history of a key; a value that is JSON is the one stored under the key,
\* and a deleted version has an empty value
IteratorRecords ==
    UNION { { [key |-> key, tx_id |-> txId, timestamp |-> "T",
               is_delete |-> (value = EmptyText), value |-> value] :
                txId \in TxIds,
                value \in {StoredText(key), MalformedText, EmptyText} } :
            key \in QueryKeys }

RECURSIVE RecordLists(_)
RecordLists(n) ==
    IF n = 0 THEN { <<>> }
    ELSE RecordLists(n - 1) \cup
         { Append(list, rec) : list \in { l \in RecordLists(n - 1) :
                                            Len(l) = n - 1 },
                               rec \in IteratorRecords }

\* JSON.parse(text): the parsed object, or threw when text is not JSON
JSONParse(text) ==
    IF \E key \in QueryKeys : text = StoredText(key)
    THEN [threw |-> FALSE,
          value |-> [docType |-> "fertilizer",
                     fertilizerId |-> CHOOSE key \in QueryKeys :
                                         text = StoredText(key)]]
    ELSE [threw |-> TRUE, value |-> [docType |-> Undefined]]

\* JSON null
Null == "null"

\* what a projection returns or throws, and what became of its iterator:
\* "none" when none was obtained, "open" when it was left open, "closed"
Projection(err, entries, iterator) ==
    [err |-> err, entries |-> entries, iterator |-> iterator]

\* the calls of next() an iterator of these records can fail at; 0 is an
\* iterator whose calls all succeed, call j yields records[j] and call
\* Len(records) + 1 reports done
FailingCalls(records) == 0..(Len(records) + 1)

\* the loop of _getQueryResultForQueryString: every value is parsed outside
\* any try, the parsed object alone is pushed, and the iterator is never
\* closed (iterator.destroy() is commented out)
RECURSIVE QueryResultLoop(_, _, _, _)
QueryResultLoop(records, j, entries, failAt) ==
    IF j > Len(records) THEN Projection(NoError, entries, "open")
    ELSE LET json == JSONParse(records[j].value)
         IN  IF json.threw THEN Projection("SyntaxError", <<>>, "open")
             ELSE IF failAt = j + 1
             THEN Projection("IteratorError", <<>>, "open")
             ELSE QueryResultLoop(records, j + 1,
                                  Append(entries, json.value), failAt)

GetQueryResultForQueryString(records, failAt) ==
    IF failAt = 1 THEN Projection("IteratorError", <<>>, "open")
    ELSE QueryResultLoop(records, 1, <<>>, failAt)

\* the loop of the two-hop QueryAllFertilizers and QueryAllDeliveries, inside
\* try ... finally { resultsIterator.close() }
RECURSIVE TwoHopQueryLoop(_, _, _, _)
TwoHopQueryLoop(records, j, allResults, failAt) ==
    IF j > Len(records) THEN Projection(NoError, allResults, "closed")
    ELSE LET strValue == records[j].value
             json == JSONParse(strValue)
             entry == IF json.threw
                      THEN [Key |-> records[j].key, Record |-> strValue]
                      ELSE [Key |-> records[j].key, Record |-> json.value]
         IN  IF failAt = j + 1
             THEN Projection("IteratorError", <<>>, "closed")
             ELSE TwoHopQueryLoop(records, j + 1,
                                  Append(allResults, entry), failAt)

\* the first next() is awaited before the try
TwoHopQueryAllFertilizers(records, failAt) ==
    IF failAt = 1 THEN Projection("IteratorError", <<>>, "open")
    ELSE TwoHopQueryLoop(records, 1, <<>>, failAt)

TwoHopQueryAllDeliveries(records, failAt) ==
    IF failAt = 1 THEN Projection("IteratorError", <<>>, "open")
    ELSE TwoHopQueryLoop(records, 1, <<>>, failAt)

\* the loop of the two-hop GetFertilizerHistory, inside
\* try ... finally { resultsIterator.close() }
RECURSIVE TwoHopHistoryLoop(_, _, _, _)
TwoHopHistoryLoop(records, j, allResults, failAt) ==
    IF j > Len(records) THEN Projection(NoError, allResults, "closed")
    ELSE LET rec == records[j]
             json == JSONParse(rec.value)
             jsonRes == [TxId |-> rec.tx_id, Timestamp |-> rec.timestamp,
                         IsDelete |-> rec.is_delete]
             entry == IF rec.value = EmptyText
                      THEN [TxId |-> jsonRes.TxId,
                            Timestamp |-> jsonRes.Timestamp,
                            IsDelete |-> jsonRes.IsDelete, Value |-> Null]
                      ELSE IF json.threw
                      THEN [TxId |-> jsonRes.TxId,
                            Timestamp |-> jsonRes.Timestamp,
                            IsDelete |-> jsonRes.IsDelete,
                            Value |-> rec.value]
                      ELSE [TxId |-> jsonRes.TxId,
                            Timestamp |-> jsonRes.Timestamp,
                            IsDelete |-> jsonRes.IsDelete,
                            Value |-> json.value]
         IN  IF failAt = j + 1
             THEN Projection("IteratorError", <<>>, "closed")
             ELSE TwoHopHistoryLoop(records, j + 1,
                                    Append(allResults, entry), failAt)

\* exists is the answer of _fertilizerExists; the first next() is awaited
\* before the try
TwoHopGetFertilizerHistory(exists, records, failAt) ==
    IF ~exists THEN Projection("FertilizerNotFound", <<>>, "none")
    ELSE IF failAt = 1 THEN Projection("IteratorError", <<>>, "open")
    ELSE TwoHopHistoryLoop(records, 1, <<>>, failAt)

Returned(op, r) ==
    [op |-> op, err |-> r.err, entries |-> r.entries,
     iterator |-> r.iterator]

QueryInit ==
    /\ ledger = [k \in Keys |-> Absent]
    /\ last = NoCall
    /\ ledger2 = [k \in Keys \cup Orgs |-> Absent]
    /\ last2 = NoCall
    /\ yielded \in RecordLists(MaxYield)
    /\ results = NoResults
    /\ entity = NoEntity
    /\ encoded = EmptyText
    /\ ServerIdle

QueryAllFertilizersTx ==
    \E failAt \in FailingCalls(yielded) :
        /\ results' = Returned("QueryAllFertilizers",
                        GetQueryResultForQueryString(yielded, failAt))
        /\ UNCHANGED <<ledger, last, ledger2, last2, yielded, entity, encoded>>
        /\ UNCHANGED serverVars

TwoHopQueryAllFertilizersTx ==
    \E failAt \in FailingCalls(yielded) :
        /\ results' = Returned("TwoHopQueryAllFertilizers",
                        TwoHopQueryAllFertilizers(yielded, failAt))
        /\ UNCHANGED <<ledger, last, ledger2, last2, yielded, entity, encoded>>
        /\ UNCHANGED serverVars

TwoHopQueryAllDeliveriesTx ==
    \E failAt \in FailingCalls(yielded) :
        /\ results' = Returned("TwoHopQueryAllDeliveries",
                        TwoHopQueryAllDeliveries(yielded, failAt))
        /\ UNCHANGED <<ledger, last, ledger2, last2, yielded, entity, encoded>>
        /\ UNCHANGED serverVars

TwoHopGetFertilizerHistoryTx ==
    \E exists \in BOOLEAN, failAt \in FailingCalls(yielded) :
        /\ results' = Returned("TwoHopGetFertilizerHistory",
                        TwoHopGetFertilizerHistory(exists, yielded, failAt))
        /\ UNCHANGED <<ledger, last, ledger2, last2, yielded, entity, encoded>>
        /\ UNCHANGED serverVars

QueryNext ==
    \/ QueryAllFertilizersTx
    \/ TwoHopQueryAllFertilizersTx
    \/ TwoHopQueryAllDeliveriesTx
    \/ TwoHopGetFertilizerHistoryTx

QuerySpec == QueryInit /\ [][QueryNext]_vars

(***************************************************************************)
(* The encoding of ledger values.  A JavaScript value is a string, an      *)
(* array, or an object whose fields are held in insertion order.  entity   *)
(* is the object a handler has built and encoded what was last written for *)
(* it.                                                                     *)
(***************************************************************************)

\* the field names of the model in the order of a string sort
FieldNames == <<"action", "actorOrg", "docType", "fertilizerId", "history">>

\* the bijections of 1..n
Orders(n) ==
    { p \in [1..n -> 1..n] : \A i, j \in 1..n : p[i] = p[j] => i = j }

\* the same fields in another insertion order
Reordered(fields) ==
    { [j \in 1..Len(fields) |-> fields[p[j]]] : p \in Orders(Len(fields)) }

\* the same value whatever the insertion order of the fields of its objects
RECURSIVE SameValue(_, _)
SameValue(a, b) ==
    IF a.t # b.t THEN FALSE
    ELSE IF a.t = "string" THEN a.v = b.v
    ELSE IF a.t = "array"
    THEN /\ Len(a.v) = Len(b.v)
         /\ \A j \in 1..Len(a.v) : SameValue(a.v[j], b.v[j])
    ELSE /\ Len(a.v) = Len(b.v)
         /\ \A i \in 1..Len(a.v) : \E j \in 1..Len(b.v) :
                /\ a.v[i].name = b.v[j].name
                /\ SameValue(a.v[i].value, b.v[j].value)

\* the history events a handler builds
HistoryEvents ==
    { Obj(fields) :
        fields \in UNION { Reordered(<< [name |-> "action",
                                         value |-> Str(action)],
                                        [name |-> "actorOrg",
                                         value |-> Str(org)] >>) :
                            action \in {"INITIAL_REGISTRATION",
                                        "ADDED_TO_DELIVERY"},
                            org \in {Org1, Org2} } }

\* the fertilizer objects a handler builds: a fresh one has no docType yet,
\* one read back from the ledger has
Entities ==
    { Obj(fields) :
        fields \in UNION (
            { Reordered(<< [name |-> "fertilizerId", value |-> Str(id)],
                           [name |-> "history",
                            value |-> Arr(<<event>>)] >>) :
                id \in QueryKeys, event \in HistoryEvents }
            \cup
            { Reordered(<< [name |-> "docType",
                            value |-> Str("fertilizer")],
                           [name |-> "fertilizerId", value |-> Str(id)],
                           [name |-> "history",
                            value |-> Arr(<<event>>)] >>) :
                id \in QueryKeys, event \in HistoryEvents } ) }

\* fertilizer.docType = 'fertilizer': an existing field keeps its place, a
\* new one comes last
SetDocType(object) ==
    IF \E j \in 1..Len(object.v) : object.v[j].name = "docType"
    THEN Obj([j \in 1..Len(object.v) |->
                IF object.v[j].name = "docType"
                THEN [name |-> "docType", value |-> Str("fertilizer")]
                ELSE object.v[j]])
    ELSE Obj(Append(object.v,
                    [name |-> "docType", value |-> Str("fertilizer")]))

\* the fields whose names are FieldNames[n] and later, in that order
RECURSIVE FieldsFrom(_, _)
FieldsFrom(fields, n) ==
    IF n > Len(FieldNames) THEN <<>>
    ELSE SelectSeq(fields, LAMBDA f : f.name = FieldNames[n])
            \o FieldsFrom(fields, n + 1)

\* sortKeysRecursive(value): the keys of every object sorted, at every depth
\* (the arrays of the model have one element, so their order is not at stake)
RECURSIVE SortKeysRecursive(_)
SortKeysRecursive(value) ==
    IF value.t = "object"
    THEN LET sorted == FieldsFrom(value.v, 1)
         IN  Obj([j \in 1..Len(sorted) |->
                    [name |-> sorted[j].name,
                     value |-> SortKeysRecursive(sorted[j].value)]])
    ELSE IF value.t = "array"
    THEN Arr([j \in 1..Len(value.v) |-> SortKeysRecursive(value.v[j])])
    ELSE value

RECURSIVE Joined(_)
Joined(texts) ==
    IF Len(texts) = 0 THEN ""
    ELSE IF Len(texts) = 1 THEN texts[1]
    ELSE texts[1] \o "," \o Joined(Tail(texts))

\* JSON.stringify(value): fields in insertion order
RECURSIVE JSONStringify(_)
JSONStringify(value) ==
    IF value.t = "object"
    THEN "{" \o Joined([j \in 1..Len(value.v) |->
                          "\"" \o value.v[j].name \o "\":"
                            \o JSONStringify(value.v[j].value)]) \o "}"
    ELSE IF value.t = "array"
    THEN "[" \o Joined([j \in 1..Len(value.v) |->
                          JSONStringify(value.v[j])]) \o "]"
    ELSE "\"" \o value.v \o "\""

\* stringify of json-stringify-deterministic: JSON text with the keys of
\* every object in sorted order
Stringify(value) == JSONStringify(SortKeysRecursive(value))

\* the encoding with JSON.stringify alone
EncodeInInsertionOrder(value) == JSONStringify(value)

\* Buffer.from(stringify(sortKeysRecursive(fertilizer)))
Encode(value) == Stringify(SortKeysRecursive(value))

EncoderInit ==
    /\ ledger = [k \in Keys |-> Absent]
    /\ last = NoCall
    /\ ledger2 = [k \in Keys \cup Orgs |-> Absent]
    /\ last2 = NoCall
    /\ yielded = <<>>
    /\ results = NoResults
    /\ entity \in Entities
    /\ encoded = EmptyText
    /\ ServerIdle

\* _putFertilizer(ctx, fertilizer)
PutFertilizerTx ==
    /\ entity' = SetDocType(entity)
    /\ encoded' = Encode(entity')
    /\ UNCHANGED <<ledger, last, ledger2, last2, yielded, results>>
    /\ UNCHANGED serverVars

\* a handler builds the same fertilizer with its fields (and those of its
\* history event) assigned in another order
RebuildTx ==
    /\ entity' \in { e \in Entities : SameValue(e, entity) }
    /\ UNCHANGED <<ledger, last, ledger2, last2, yielded, results, encoded>>
    /\ UNCHANGED serverVars

EncoderNext == PutFertilizerTx \/ RebuildTx

EncoderSpec == EncoderInit /\ [][EncoderNext]_vars

(***************************************************************************)
(* The API server's shared gateway                                         *)
(***************************************************************************)

\* initializeFabricGateway: "already initialized"
Initialized ==
    /\ sharedGateway # Undefined
    /\ sharedClient # Undefined
    /\ sharedNetwork # Undefined
    /\ sharedContract # Undefined

\* new grpc.Client(...): a client no earlier call has constructed
NewGrpcClient == CHOOSE c \in GrpcClients : c \notin opened.clients

\* connect({client, identity, signer, ...}): a gateway no earlier call has built
Connect == CHOOSE g \in Gateways : g \notin opened.gateways

\* gateway.getNetwork(channelName)
GetNetwork(gateway) == gateway \o "/mychannel"

\* network.getContract(chaincodeName)
GetContract(network) == network \o "/basic"

\* the middleware calls initializeFabricGateway, which runs to its return
\* or to the first await (the read of the TLS certificate)
MiddlewareTx(r) ==
    /\ pc[r] = "idle"
    /\ pc' = [pc EXCEPT ![r] = IF Initialized THEN "next" ELSE "newGrpcConnection"]
    /\ UNCHANGED <<sharedClient, sharedGateway, sharedNetwork, sharedContract, opened>>
    /\ UNCHANGED chaincodeVars

\* sharedClient = await newGrpcConnection(), then newIdentity() up to its
\* first await; a failed read rejects and the middleware answers 500
NewGrpcConnectionTx(r) ==
    /\ pc[r] = "newGrpcConnection"
    /\ \E ok \in BOOLEAN :
        IF ok
        THEN /\ opened.clients # GrpcClients
             /\ sharedClient' = NewGrpcClient
             /\ opened' = [opened EXCEPT !.clients = @ \cup {NewGrpcClient}]
             /\ pc' = [pc EXCEPT ![r] = "newIdentity"]
        ELSE /\ pc' = [pc EXCEPT ![r] = "failed"]
             /\ UNCHANGED <<sharedClient, opened>>
    /\ UNCHANGED <<sharedGateway, sharedNetwork, sharedContract>>
    /\ UNCHANGED chaincodeVars

\* const identity = await newIdentity(), then newSigner() up to its first await
NewIdentityTx(r) ==
    /\ pc[r] = "newIdentity"
    /\ \E ok \in BOOLEAN :
        pc' = [pc EXCEPT ![r] = IF ok THEN "newSigner" ELSE "failed"]
    /\ UNCHANGED <<sharedClient, sharedGateway, sharedNetwork, sharedContract, opened>>
    /\ UNCHANGED chaincodeVars

\* const signer = await newSigner(), then connect, getNetwork and getContract
\* without a further await, and next()
NewSignerTx(r) ==
    /\ pc[r] = "newSigner"
    /\ \E ok \in BOOLEAN :
        IF ok
        THEN /\ opened.gateways # Gateways
             /\ sharedGateway' = Connect
             /\ sharedNetwork' = GetNetwork(Connect)
             /\ sharedContract' = GetContract(GetNetwork(Connect))
             /\ opened' = [opened EXCEPT !.gateways = @ \cup {Connect}]
             /\ pc' = [pc EXCEPT ![r] = "next"]
        ELSE /\ pc' = [pc EXCEPT ![r] = "failed"]
             /\ UNCHANGED <<sharedGateway, sharedNetwork, sharedContract, opened>>
    /\ UNCHANGED sharedClient
    /\ UNCHANGED chaincodeVars

\* the request is answered (by its route after next(), or with status 500);
\* a later request runs the middleware again
RespondTx(r) ==
    /\ pc[r] \in {"next", "failed"}
    /\ pc' = [pc EXCEPT ![r] = "idle"]
    /\ UNCHANGED <<sharedClient, sharedGateway, sharedNetwork, sharedContract, opened>>
    /\ UNCHANGED chaincodeVars

ServerNext ==
    \/ \E r \in Requests : MiddlewareTx(r)
    \/ \E r \in Requests : NewGrpcConnectionTx(r)
    \/ \E r \in Requests : NewIdentityTx(r)
    \/ \E r \in Requests : NewSignerTx(r)
    \/ \E r \in Requests : RespondTx(r)

ServerSpec == Init /\ [][ServerNext]_vars

(***************************************************************************)
(* Properties of the five-state chaincode                                  *)
(***************************************************************************)

SeqSet(list) == { list[j] : j \in 1..Len(list) }

MutatingOps ==
    {"InitDeliveryWithFertilizer", "AddFertilizerToDelivery",
     "TransferDelivery", "AcceptDelivery"}

InTransitStatuses == {"IN_TRANSIT_TO_TRANSPORTER", "IN_TRANSIT_TO_AGRODEALER"}

\* the status steps of the delivery state table: from, to, operation, caller
StatusSteps ==
    { <<"INITIATED", "IN_TRANSIT_TO_TRANSPORTER", "TransferDelivery", Org1>>,
      <<"IN_TRANSIT_TO_TRANSPORTER", "TRANSFERRED_TO_TRANSPORTER",
        "AcceptDelivery", Org2>>,
      <<"TRANSFERRED_TO_TRANSPORTER", "IN_TRANSIT_TO_AGRODEALER",
        "TransferDelivery", Org2>>,
      <<"IN_TRANSIT_TO_AGRODEALER", "COMPLETED", "AcceptDelivery", Org3>> }

\* the organisation that acted last on the first member unit of a delivery
LastActorOrg(world, delivery) ==
    LET unit == world[delivery.fertilizerIds[1]]
    IN  IF IsFertilizer(unit) THEN unit.history[Len(unit.history)].actorOrg
        ELSE Undefined

\* C1: a delivery's status changes only by the four steps of the state
\* table, each taken by its operation and its organisation; it never skips
\* a step and never moves backwards.
C1_StatusOnlyAdvances ==
    [][\A k \in Keys :
          (/\ IsDelivery(ledger[k])
           /\ IsDelivery(ledger'[k])
           /\ ledger'[k].status # ledger[k].status)
          => \E step \in StatusSteps :
                /\ ledger[k].status = step[1]
                /\ ledger'[k].status = step[2]
                /\ last'.op = step[3]
                /\ LastActorOrg(ledger', ledger'[k]) = step[4]]_vars

\* C2: the member list of every delivery holds exactly the ids of the
\* fertilizer records whose deliveryId is that delivery.
C2_MembersAreBackLinked ==
    \A k \in Keys :
        IsDelivery(ledger[k]) =>
            SeqSet(ledger[k].fertilizerIds) =
                { u \in Keys : /\ IsFertilizer(ledger[u])
                               /\ ledger[u].deliveryId
                                    = ledger[k].deliveryId }

\* C3: the members of a delivery are all IN_DELIVERY exactly when the
\* delivery is in transit, and they all have one status and one owner
\* organisation.
C3_StatusAgreement ==
    \A k \in Keys :
        IsDelivery(ledger[k]) =>
            LET members == SeqSet(ledger[k].fertilizerIds)
            IN  /\ (\A m \in members :
                        Field(ledger[m], "status") = "IN_DELIVERY")
                    <=> ledger[k].status \in InTransitStatuses
                /\ \A m1, m2 \in members :
                    /\ Field(ledger[m1], "status")
                         = Field(ledger[m2], "status")
                    /\ Field(ledger[m1], "currentOwnerOrg")
                         = Field(ledger[m2], "currentOwnerOrg")

TransferPairs ==
    { <<Org1, "INITIATED">>, <<Org2, "TRANSFERRED_TO_TRANSPORTER">> }

AcceptPairs ==
    { <<Org2, "IN_TRANSIT_TO_TRANSPORTER">>,
      <<Org3, "IN_TRANSIT_TO_AGRODEALER">> }

\* the invocation was rejected and had issued no putState
RejectedWithoutWrite(s) == s.err # NoError /\ s.writes = <<>>

\* C5: TransferDelivery and AcceptDelivery reject, without issuing a write,
\* every call whose (caller organisation, delivery status) pair is not one
\* of the pairs of the state table.
C5_OtherPairsRejected ==
    \A client \in Clients, timestamp \in Timestamps, deliveryId \in Keys :
        LET pair == <<client.mspId, Field(ledger[deliveryId], "status")>>
        IN  /\ pair \notin TransferPairs =>
                \A newOwnerOrg \in TargetOrgs, newOwnerId \in TargetIds :
                    RejectedWithoutWrite(
                        TransferDelivery(ledger, client, timestamp,
                                         deliveryId, newOwnerOrg, newOwnerId))
            /\ pair \notin AcceptPairs =>
                \A scanned \in ScanLists :
                    RejectedWithoutWrite(
                        AcceptDelivery(ledger, client, timestamp, deliveryId,
                                       scanned))

\* a call on an existing record was rejected for its (organisation, status)
\* pair
C5_Witness ==
    /\ last.op \in {"TransferDelivery", "AcceptDelivery"}
    /\ last.err = "UnauthorizedOrInvalidState"
    /\ last.puts = <<>>
    /\ \E k \in Keys : IsDelivery(ledger[k])

\* C8: when TransferDelivery fails because a member unit is owned by another
\* organisation, it has issued no putState.
C8_TransferChecksBeforeWrites ==
    (last.op = "TransferDelivery" /\ last.err = "OwnershipMismatch")
        => last.puts = <<>>

\* C9: when AcceptDelivery fails the owner check or the status check of a
\* member unit, it has issued no putState.
C9_AcceptChecksBeforeWrites ==
    (/\ last.op = "AcceptDelivery"
     /\ last.err \in {"OwnershipMismatch", "NotInDelivery"})
        => last.puts = <<>>

\* the scanned list holds exactly the member ids: the same ids, as many
ExactScan(members, scanned) ==
    /\ SeqSet(scanned) = SeqSet(members)
    /\ Len(scanned) = Len(members)

\* the invocation got past the content check
PassedContentCheck(s) ==
    s.err \notin {"DeliveryNotFound", "UnauthorizedOrInvalidState",
                  "RecipientMismatch", "ContentMismatch", "NotTransferred",
                  "Unauthorized", "OrgNotFound", "MissingScanned",
                  "ExtraScanned"}

\* the five-state AcceptDelivery passes the content check only on an exact
\* scan, and a call with another scan fails and writes nothing
FiveStateScanMustBeExact ==
    \A client \in Clients, timestamp \in Timestamps, deliveryId \in Keys,
       scanned \in ScanLists :
        IsDelivery(ledger[deliveryId]) =>
            LET s == AcceptDelivery(ledger, client, timestamp, deliveryId,
                                    scanned)
                exact == ExactScan(ledger[deliveryId].fertilizerIds, scanned)
            IN  /\ ~exact => RejectedWithoutWrite(s) /\ TxResult(s) = ledger
                /\ PassedContentCheck(s) => exact

\* the same for the two-hop AcceptDelivery
TwoHopScanMustBeExact ==
    \A callingOrg \in Orgs, deliveryId \in Keys, scanned \in ScanLists :
        IsDelivery(ledger2[deliveryId]) =>
            LET s == TwoHopAcceptDelivery(ledger2, callingOrg, deliveryId,
                                          scanned)
                members ==
                    [j \in 1..Len(ledger2[deliveryId].fertilizerUnits) |->
                        ledger2[deliveryId].fertilizerUnits[j].fertilizerId]
                exact == ExactScan(members, scanned)
            IN  /\ ~exact => RejectedWithoutWrite(s) /\ TxResult(s) = ledger2
                /\ PassedContentCheck(s) => exact

\* C6: in both chaincodes AcceptDelivery with a scanned list whose set of ids
\* or whose number of ids differs from the delivery's members fails and
\* changes nothing, and the content check passes only on the exact ids.
C6_ScanMustBeExact == FiveStateScanMustBeExact /\ TwoHopScanMustBeExact

AlreadyExistsErrors == {"FertilizerAlreadyExists", "DeliveryAlreadyExists"}

\* C7: InitDeliveryWithFertilizer by the supplier with a fertilizer id or a
\* delivery id that is present on the ledger fails with an already-exists
\* error and has issued no putState, in both chaincodes.
C7_ExistenceChecksBeforeWrites ==
    /\ \A client \in Clients, timestamp \in Timestamps, deliveryId \in Keys,
          fertilizerId \in Keys, productType \in ProductTypes,
          quantity \in Quantities, agrodealerOrg \in TargetOrgs,
          agrodealerId \in TargetIds :
            (/\ client.mspId = Org1
             /\ \/ NonEmpty(ledger[fertilizerId])
                \/ NonEmpty(ledger[deliveryId]))
            => LET s == InitDeliveryWithFertilizer(ledger, client, timestamp,
                            deliveryId, fertilizerId, productType, quantity,
                            agrodealerOrg, agrodealerId)
               IN  s.err \in AlreadyExistsErrors /\ s.writes = <<>>
    /\ \A deliveryId \in Keys, fertilizerId \in Keys,
          productType \in ProductTypes, quantity \in Quantities,
          agrodealerOrg \in Orgs :
            (\/ NonEmpty(ledger2[fertilizerId])
             \/ NonEmpty(ledger2[deliveryId]))
            => LET s == TwoHopInitDeliveryWithFertilizer(ledger2, Org1,
                            deliveryId, fertilizerId, productType, quantity,
                            agrodealerOrg)
               IN  s.err \in AlreadyExistsErrors /\ s.writes = <<>>

\* the putState calls of the invocation wrote the unit records first and the
\* delivery record last, and no getState followed a putState
ReadsThenUnitsThenDelivery(call) ==
    /\ ~call.lateRead
    /\ \A i, j \in 1..Len(call.puts) :
        (i < j /\ call.puts[i].docType = "delivery")
            => call.puts[j].docType # "fertilizer"

\* C10: in every mutating operation every getState is issued before the
\* first putState, and the putState calls write the unit records first and
\* the delivery record last.
C10_ReadsBeforeWrites ==
    /\ last.op \in MutatingOps => ReadsThenUnitsThenDelivery(last)
    /\ last2.op \in MutatingOps => ReadsThenUnitsThenDelivery(last2)

\* C11: a unit belongs to one delivery only: no id is listed by two
\* deliveries, and no id is listed twice by one delivery.
C11_UnitInOneDelivery ==
    \A k1, k2 \in Keys :
        (IsDelivery(ledger[k1]) /\ IsDelivery(ledger[k2])) =>
            \A i \in 1..Len(ledger[k1].fertilizerIds),
               j \in 1..Len(ledger[k2].fertilizerIds) :
                ledger[k1].fertilizerIds[i] = ledger[k2].fertilizerIds[j]
                    => (k1 = k2 /\ i = j)

\* the invocation put records of one kind only at each key
OneKindPerKey(call) ==
    \A i, j \in 1..Len(call.puts) :
        call.puts[i].key = call.puts[j].key
            => call.puts[i].docType = call.puts[j].docType

\* a key that holds a unit holds no delivery afterwards, and the reverse
KindsKept(world, next) ==
    \A k \in Keys :
        /\ IsFertilizer(world[k]) => ~IsDelivery(next[k])
        /\ IsDelivery(world[k]) => ~IsFertilizer(next[k])

\* C12: no id is used for both kinds, in either chaincode: no invocation
\* (InitDeliveryWithFertilizer with fertilizerId = deliveryId in particular)
\* writes a unit and a delivery at one key, and no key that held a record of
\* one kind comes to hold a record of the other kind.
C12_KindsNeverShareKey ==
    [][/\ OneKindPerKey(last') /\ KindsKept(ledger, ledger')
       /\ OneKindPerKey(last2') /\ KindsKept(ledger2, ledger2')]_vars

\* C13: the deliveryId of a fertilizer record never changes.
C13_DeliveryIdImmutable ==
    [][\A k \in Keys :
          (IsFertilizer(ledger[k]) /\ IsFertilizer(ledger'[k]))
              => ledger'[k].deliveryId = ledger[k].deliveryId]_vars

\* seq p is a prefix of seq q
IsPrefix(p, q) ==
    /\ Len(p) <= Len(q)
    /\ \A j \in 1..Len(p) : p[j] = q[j]

\* C14: the history of a unit only grows at its end, and a key that holds a
\* unit or a delivery holds a record of that kind after every step.
C14_HistoryAppendOnly ==
    [][\A k \in Keys :
          /\ IsFertilizer(ledger[k]) =>
                /\ IsFertilizer(ledger'[k])
                /\ IsPrefix(ledger[k].history, ledger'[k].history)
          /\ IsDelivery(ledger[k]) => IsDelivery(ledger'[k])]_vars

\* the delivery key of the successful TransferDelivery or AcceptDelivery
\* remembered in call: the key of its last putState
ActedDelivery(call) == call.puts[Len(call.puts)].key

\* the history of the unit at key k has exactly one more event in next
OneEventAppended(world, next, k) ==
    /\ IsFertilizer(world[k]) /\ IsFertilizer(next[k])
    /\ Len(next[k].history) = Len(world[k].history) + 1

\* C15: a successful TransferDelivery or AcceptDelivery appends exactly one
\* event to the history of every member unit, and no step changes the status
\* of a unit, or of the delivery listing it, without appending one event to
\* the unit's history.
C15_OneEventPerTransition ==
    [][/\ (/\ last'.op \in {"TransferDelivery", "AcceptDelivery"}
           /\ last'.err = NoError)
          => \A m \in SeqSet(ledger'[ActedDelivery(last')].fertilizerIds) :
                OneEventAppended(ledger, ledger', m)
       /\ \A k \in Keys :
            /\ (/\ IsFertilizer(ledger[k]) /\ IsFertilizer(ledger'[k])
                /\ ledger'[k].status # ledger[k].status)
               => OneEventAppended(ledger, ledger', k)
            /\ (/\ IsDelivery(ledger[k]) /\ IsDelivery(ledger'[k])
                /\ ledger'[k].status # ledger[k].status)
               => \A m \in SeqSet(ledger'[k].fertilizerIds) :
                    OneEventAppended(ledger, ledger', m)]_vars

\* the keys whose record is a unit before and after, with another owner
\* organisation or identity after
OwnerChanged(world, next) ==
    { k \in Keys : /\ IsFertilizer(world[k]) /\ IsFertilizer(next[k])
                   /\ \/ next[k].currentOwnerOrg # world[k].currentOwnerOrg
                      \/ next[k].currentOwnerId # world[k].currentOwnerId }

\* C16: the owner of an existing unit changes only by a successful
\* AcceptDelivery on the delivery that lists the unit, and becomes the caller
\* of that AcceptDelivery; every other operation, TransferDelivery included,
\* leaves the owner of every existing unit as it was.
C16_OwnerMovesOnlyOnAccept ==
    /\ \A timestamp \in Timestamps :
        OwnerChanged(ledger, TxResult(InitLedger(ledger, timestamp))) = {}
    /\ \A client \in Clients, timestamp \in Timestamps, deliveryId \in Keys :
        /\ \A fertilizerId \in Keys, productType \in ProductTypes,
              quantity \in Quantities :
            /\ \A agrodealerOrg \in TargetOrgs, agrodealerId \in TargetIds :
                OwnerChanged(ledger,
                    TxResult(InitDeliveryWithFertilizer(ledger, client,
                        timestamp, deliveryId, fertilizerId, productType,
                        quantity, agrodealerOrg, agrodealerId))) = {}
            /\ OwnerChanged(ledger,
                    TxResult(AddFertilizerToDelivery(ledger, client,
                        timestamp, deliveryId, fertilizerId, productType,
                        quantity))) = {}
        /\ \A newOwnerOrg \in TargetOrgs, newOwnerId \in TargetIds :
            OwnerChanged(ledger,
                TxResult(TransferDelivery(ledger, client, timestamp,
                    deliveryId, newOwnerOrg, newOwnerId))) = {}
        /\ \A scanned \in ScanLists :
            LET next == TxResult(AcceptDelivery(ledger, client, timestamp,
                                                deliveryId, scanned))
            IN  \A k \in OwnerChanged(ledger, next) :
                    /\ IsDelivery(ledger[deliveryId])
                    /\ k \in SeqSet(ledger[deliveryId].fertilizerIds)
                    /\ next[k].currentOwnerOrg = client.mspId
                    /\ next[k].currentOwnerId = client.id

\* C17: once a delivery is COMPLETED no step changes its record, nor the
\* owner, the status or the history of any of its member units.
C17_CompletedIsTerminal ==
    [][\A k \in Keys :
          (IsDelivery(ledger[k]) /\ ledger[k].status = "COMPLETED") =>
              /\ ledger'[k] = ledger[k]
              /\ \A m \in SeqSet(ledger[k].fertilizerIds) :
                    IsFertilizer(ledger[m]) =>
                        /\ IsFertilizer(ledger'[m])
                        /\ ledger'[m].currentOwnerOrg
                             = ledger[m].currentOwnerOrg
                        /\ ledger'[m].currentOwnerId
                             = ledger[m].currentOwnerId
                        /\ ledger'[m].status = ledger[m].status
                        /\ ledger'[m].history = ledger[m].history]_vars

\* C18: InitDeliveryWithFertilizer called by an organisation other than
\* Org1MSP fails with the unauthorized error and issues no putState, in both
\* chaincodes.
C18_OnlySupplierInitiates ==
    \A deliveryId \in Keys, fertilizerId \in Keys,
       productType \in ProductTypes, quantity \in Quantities :
        /\ \A client \in Clients, timestamp \in Timestamps,
              agrodealerOrg \in TargetOrgs, agrodealerId \in TargetIds :
            LET s == InitDeliveryWithFertilizer(ledger, client, timestamp,
                        deliveryId, fertilizerId, productType, quantity,
                        agrodealerOrg, agrodealerId)
            IN  client.mspId # Org1 =>
                    /\ s.err = "Unauthorized"
                    /\ s.writes = <<>>
                    /\ TxResult(s) = ledger
        /\ \A callingOrg \in Orgs, agrodealerOrg \in Orgs :
            LET s == TwoHopInitDeliveryWithFertilizer(ledger2, callingOrg,
                        deliveryId, fertilizerId, productType, quantity,
                        agrodealerOrg)
            IN  callingOrg # Org1 =>
                    /\ s.err = "Unauthorized"
                    /\ s.writes = <<>>
                    /\ TxResult(s) = ledger2

\* InitDeliveryWithFertilizer was refused as unauthorized on a ledger that
\* holds records
C18_Witness ==
    /\ last.op = "InitDeliveryWithFertilizer"
    /\ last.err = "Unauthorized"
    /\ last.puts = <<>>
    /\ \E k \in Keys : NonEmpty(ledger[k])

\* the unit is REGISTERED and its history is the one event
\* INITIAL_REGISTRATION naming the registering organisation and identity as
\* new owner
FreshlyRegistered(fertilizer, org, id) ==
    /\ fertilizer.status = "REGISTERED"
    /\ Len(fertilizer.history) = 1
    /\ fertilizer.history[1].action = "INITIAL_REGISTRATION"
    /\ fertilizer.history[1].newOwnerOrg = org
    /\ fertilizer.history[1].newOwnerId = id

\* C19: the unit created by a successful InitDeliveryWithFertilizer, and the
\* unit seeded by InitLedger, has status REGISTERED and a history of exactly
\* one event, INITIAL_REGISTRATION, whose new owner is the registering
\* organisation and identity.
C19_RegisteredWithOneEvent ==
    /\ \A timestamp \in Timestamps :
        LET s == InitLedger(ledger, timestamp)
        IN  FreshlyRegistered(s.writes[1].val, s.writes[1].val.currentOwnerOrg,
                              s.writes[1].val.currentOwnerId)
    /\ \A client \in Clients, timestamp \in Timestamps, deliveryId \in Keys,
          fertilizerId \in Keys, productType \in ProductTypes,
          quantity \in Quantities, agrodealerOrg \in TargetOrgs,
          agrodealerId \in TargetIds :
            LET s == InitDeliveryWithFertilizer(ledger, client, timestamp,
                        deliveryId, fertilizerId, productType, quantity,
                        agrodealerOrg, agrodealerId)
            IN  s.err = NoError =>
                    FreshlyRegistered(s.writes[1].val, client.mspId,
                                      client.id)

\* AddFertilizerToDelivery with every caller and every argument, on every
\* delivery whose status is not INITIATED, satisfies Outcome
AddOutsideInitiated(Outcome(_, _)) ==
    \A client \in Clients, timestamp \in Timestamps, deliveryId \in Keys,
       fertilizerId \in Keys, productType \in ProductTypes,
       quantity \in Quantities :
        (/\ IsDelivery(ledger[deliveryId])
         /\ ledger[deliveryId].status # "INITIATED")
        => Outcome(client,
                   AddFertilizerToDelivery(ledger, client, timestamp,
                        deliveryId, fertilizerId, productType, quantity))

\* C20 as stated: AddFertilizerToDelivery on a delivery that is not INITIATED
\* fails with the invalid-state error whoever calls.
C20_InvalidStateForEveryCaller ==
    AddOutsideInitiated(LAMBDA client, s : s.err = "InvalidState")

\* C20 amended: AddFertilizerToDelivery on a delivery that is not INITIATED
\* fails for every caller and issues no putState; the error is the
\* invalid-state error when the caller is of Org1MSP and the unauthorized
\* error otherwise.
C20_FailsForEveryCaller ==
    AddOutsideInitiated(LAMBDA client, s :
        /\ s.writes = <<>>
        /\ s.err = IF client.mspId = Org1 THEN "InvalidState"
                   ELSE "Unauthorized")

\* AddFertilizerToDelivery was refused for the status of the delivery
C20_Witness ==
    /\ last.op = "AddFertilizerToDelivery"
    /\ last.err = "InvalidState"
    /\ last.puts = <<>>

\* C21: AddFertilizerToDelivery fails when the caller's organisation is not
\* the supplier organisation of the delivery and when the fertilizer id is
\* present on the ledger; when it succeeds it appends that one id to the
\* member list, keeps the other members, creates the unit owned by the caller
\* with the single event ADDED_TO_DELIVERY, and changes no other key.
C21_AddAppendsOneUnit ==
    \A client \in Clients, timestamp \in Timestamps, deliveryId \in Keys,
       fertilizerId \in Keys, productType \in ProductTypes,
       quantity \in Quantities :
        LET s == AddFertilizerToDelivery(ledger, client, timestamp,
                    deliveryId, fertilizerId, productType, quantity)
            next == TxResult(s)
        IN  /\ (\/ Field(ledger[deliveryId], "supplierOrg") # client.mspId
                \/ NonEmpty(ledger[fertilizerId]))
               => RejectedWithoutWrite(s)
            /\ s.err = NoError =>
                /\ IsDelivery(ledger[deliveryId])
                /\ next[deliveryId].fertilizerIds
                     = Append(ledger[deliveryId].fertilizerIds, fertilizerId)
                /\ IsFertilizer(next[fertilizerId])
                /\ next[fertilizerId].deliveryId = deliveryId
                /\ next[fertilizerId].currentOwnerOrg = client.mspId
                /\ next[fertilizerId].currentOwnerId = client.id
                /\ Len(next[fertilizerId].history) = 1
                /\ next[fertilizerId].history[1].action = "ADDED_TO_DELIVERY"
                /\ \A k \in Keys \ {deliveryId, fertilizerId} :
                    next[k] = ledger[k]

\* AddFertilizerToDelivery succeeded on a delivery that now lists two units
C21_Witness ==
    /\ last.op = "AddFertilizerToDelivery"
    /\ last.err = NoError
    /\ \E k \in Keys : IsDelivery(ledger[k])
                        /\ Len(ledger[k].fertilizerIds) = 2

\* the member ids of a two-hop delivery record
UnitIds(delivery) ==
    [j \in 1..Len(delivery.fertilizerUnits) |->
        delivery.fertilizerUnits[j].fertilizerId]

\* C22: in both chaincodes the member list of a delivery whose status is no
\* longer INITIATED is the same after every step.
C22_MembersFixedAfterInitiated ==
    [][\A k \in Keys :
          /\ (/\ IsDelivery(ledger[k]) /\ ledger[k].status # "INITIATED"
              /\ IsDelivery(ledger'[k]))
             => ledger'[k].fertilizerIds = ledger[k].fertilizerIds
          /\ (/\ IsDelivery(ledger2[k]) /\ ledger2[k].status # "INITIATED"
              /\ IsDelivery(ledger2'[k]))
             => UnitIds(ledger2'[k]) = UnitIds(ledger2[k])]_vars

\* the identity that may accept the delivery in its current phase
DesignatedId(delivery) ==
    IF delivery.status = "IN_TRANSIT_TO_TRANSPORTER"
    THEN delivery.currentTransporterId
    ELSE delivery.agrodealerId

\* C23: AcceptDelivery on a delivery in transit, called by an identity other
\* than the one designated for the phase (the transporter identity named by
\* the TransferDelivery before, or the agrodealer identity named at
\* initiation), fails and issues no putState.
C23_OnlyDesignatedIdentityAccepts ==
    \A client \in Clients, timestamp \in Timestamps, deliveryId \in Keys,
       scanned \in ScanLists :
        (/\ IsDelivery(ledger[deliveryId])
         /\ ledger[deliveryId].status \in InTransitStatuses
         /\ client.id # DesignatedId(ledger[deliveryId]))
        => LET s == AcceptDelivery(ledger, client, timestamp, deliveryId,
                                   scanned)
           IN  RejectedWithoutWrite(s) /\ TxResult(s) = ledger

\* AcceptDelivery by the right organisation was refused for the identity
C23_Witness ==
    /\ last.op = "AcceptDelivery"
    /\ last.err = "RecipientMismatch"
    /\ last.puts = <<>>

\* the last event of the unit's history
LastEvent(fertilizer) == fertilizer.history[Len(fertilizer.history)]

\* the in-transit status that follows the status of a delivery
NextInTransit(status) ==
    IF status = "INITIATED" THEN "IN_TRANSIT_TO_TRANSPORTER"
    ELSE "IN_TRANSIT_TO_AGRODEALER"

\* C24: after a successful TransferDelivery every member unit is
\* IN_DELIVERY, its history is the former history followed by one
\* transfer-initiated event with the caller as actor and the target as new
\* owner, its owner is as before, and the delivery has the next in-transit
\* status.
C24_TransferMarksUnits ==
    \A client \in TeamClients, timestamp \in Timestamps, deliveryId \in Keys,
       newOwnerOrg \in TargetOrgs, newOwnerId \in TargetIds :
        LET s == TransferDelivery(ledger, client, timestamp, deliveryId,
                                  newOwnerOrg, newOwnerId)
            next == TxResult(s)
        IN  s.err = NoError =>
            /\ next[deliveryId].status
                 = NextInTransit(ledger[deliveryId].status)
            /\ next[deliveryId].status \in InTransitStatuses
            /\ next[deliveryId].fertilizerIds
                 = ledger[deliveryId].fertilizerIds
            /\ \A m \in SeqSet(ledger[deliveryId].fertilizerIds) :
                /\ IsFertilizer(ledger[m]) /\ IsFertilizer(next[m])
                /\ next[m].status = "IN_DELIVERY"
                /\ Len(next[m].history) = Len(ledger[m].history) + 1
                /\ IsPrefix(ledger[m].history, next[m].history)
                /\ LastEvent(next[m]).action
                     \in {"TRANSFER_INITIATED_TO_TRANSPORTER",
                          "TRANSFER_INITIATED_TO_AGRODEALER"}
                /\ LastEvent(next[m]).actorOrg = client.mspId
                /\ LastEvent(next[m]).actorId = client.id
                /\ LastEvent(next[m]).newOwnerOrg = newOwnerOrg
                /\ LastEvent(next[m]).newOwnerId = newOwnerId
                /\ next[m].currentOwnerOrg = ledger[m].currentOwnerOrg
                /\ next[m].currentOwnerId = ledger[m].currentOwnerId

\* TransferDelivery succeeded on a delivery of two units
C24_Witness ==
    /\ last.op = "TransferDelivery"
    /\ last.err = NoError
    /\ Len(last.puts) = 3

\* C25: after a successful AcceptDelivery every member unit is owned by the
\* caller's organisation and identity, its history is the former history
\* followed by one RECEIVED_BY event whose previous owner is the unit's
\* former owner and whose new owner is the caller, and the delivery is
\* TRANSFERRED_TO_TRANSPORTER after the transporter's accept and COMPLETED
\* after the agrodealer's.
C25_AcceptHandsOver ==
    \A client \in TeamClients, timestamp \in Timestamps, deliveryId \in Keys,
       scanned \in ScanLists :
        LET s == AcceptDelivery(ledger, client, timestamp, deliveryId,
                                scanned)
            next == TxResult(s)
        IN  s.err = NoError =>
            /\ next[deliveryId].status
                 = IF client.mspId = Org2 THEN "TRANSFERRED_TO_TRANSPORTER"
                   ELSE "COMPLETED"
            /\ \A m \in SeqSet(ledger[deliveryId].fertilizerIds) :
                /\ IsFertilizer(ledger[m]) /\ IsFertilizer(next[m])
                /\ next[m].currentOwnerOrg = client.mspId
                /\ next[m].currentOwnerId = client.id
                /\ Len(next[m].history) = Len(ledger[m].history) + 1
                /\ IsPrefix(ledger[m].history, next[m].history)
                /\ LastEvent(next[m]).action
                     = IF client.mspId = Org2 THEN "RECEIVED_BY_TRANSPORTER"
                       ELSE "RECEIVED_BY_AGRODEALER"
                /\ LastEvent(next[m]).previousOwnerOrg
                     = ledger[m].currentOwnerOrg
                /\ LastEvent(next[m]).previousOwnerId
                     = ledger[m].currentOwnerId
                /\ LastEvent(next[m]).newOwnerOrg = client.mspId
                /\ LastEvent(next[m]).newOwnerId = client.id

\* C26: right after the transporter's successful TransferDelivery to the
\* agrodealer, an AcceptDelivery by the designated agrodealer identity with a
\* scan that is not the member list fails and leaves the ledger as it was,
\* and the AcceptDelivery that follows with the exact member ids succeeds:
\* the delivery is COMPLETED and every member unit is owned by Org3MSP.
C26_FailedAcceptDoesNotBlock ==
    (/\ last.op = "TransferDelivery" /\ last.err = NoError
     /\ ledger[ActedDelivery(last)].status = "IN_TRANSIT_TO_AGRODEALER")
    => LET deliveryId == ActedDelivery(last)
           members == ledger[deliveryId].fertilizerIds
       IN  \A client \in TeamClients, timestamp \in Timestamps,
              scanned \in ScanLists :
            (/\ client.mspId = Org3
             /\ client.id = ledger[deliveryId].agrodealerId
             /\ ~ExactScan(members, scanned))
            => LET failed == AcceptDelivery(ledger, client, timestamp,
                                            deliveryId, scanned)
                   retry == AcceptDelivery(TxResult(failed), client,
                                           timestamp, deliveryId, members)
                   next == TxResult(retry)
               IN  /\ failed.err # NoError
                   /\ TxResult(failed) = ledger
                   /\ retry.err = NoError
                   /\ next[deliveryId].status = "COMPLETED"
                   /\ \A m \in SeqSet(members) :
                        next[m].currentOwnerOrg = Org3

\* the transporter has just handed a delivery over to an agrodealer whose
\* designated identity is among the callers
C26_Witness ==
    /\ last.op = "TransferDelivery" /\ last.err = NoError
    /\ ledger[ActedDelivery(last)].status = "IN_TRANSIT_TO_AGRODEALER"
    /\ ledger[ActedDelivery(last)].agrodealerId = User3Org3
    /\ Len(ledger[ActedDelivery(last)].fertilizerIds) = 2

\* the actions of the events of a history, in order
ActionsOf(history) == [j \in 1..Len(history) |-> history[j].action]

\* C27: when the agrodealer's AcceptDelivery has just completed a delivery,
\* the history of each member unit is exactly five events in this order:
\* INITIAL_REGISTRATION, TRANSFER_INITIATED to the transporter organisation,
\* RECEIVED_BY the transporter, TRANSFER_INITIATED to the agrodealer
\* organisation, RECEIVED_BY the agrodealer.
C27_FiveEventsAfterLifecycle ==
    (/\ last.op = "AcceptDelivery" /\ last.err = NoError
     /\ ledger[ActedDelivery(last)].status = "COMPLETED")
    => \A m \in SeqSet(ledger[ActedDelivery(last)].fertilizerIds) :
         /\ ActionsOf(ledger[m].history) =
              << "INITIAL_REGISTRATION",
                 "TRANSFER_INITIATED_TO_TRANSPORTER",
                 "RECEIVED_BY_TRANSPORTER",
                 "TRANSFER_INITIATED_TO_AGRODEALER",
                 "RECEIVED_BY_AGRODEALER" >>
         /\ ledger[m].history[2].newOwnerOrg = Org2
         /\ ledger[m].history[4].newOwnerOrg = Org3

\* the member ids of a two-hop delivery, in order
UnitIdsOf(delivery) ==
    [j \in 1..Len(delivery.fertilizerUnits) |->
        delivery.fertilizerUnits[j].fertilizerId]

\* the hops of the documented flow: supplier to transporter, transporter to
\* agrodealer
DocumentedHops == { <<Org1, Org2>>, <<Org2, Org3>> }

\* C28: in the two-hop chaincode, whenever the supplier's TransferDelivery to
\* Org2MSP succeeds the transporter's AcceptDelivery with the exact member
\* ids succeeds after it, and whenever the transporter's TransferDelivery to
\* Org3MSP succeeds the agrodealer's AcceptDelivery with the exact member ids
\* succeeds after it.  The delivery of the first hop is one initiated for
\* the agrodealer Org3MSP, as in the documented requests.
C28_DocumentedFlowExecutable ==
    \A deliveryId \in Keys, hop \in DocumentedHops :
        LET transfer == TwoHopTransferDelivery(ledger2, hop[1], deliveryId,
                                               hop[2])
            accept == TwoHopAcceptDelivery(TxResult(transfer), hop[2],
                        deliveryId, UnitIdsOf(ledger2[deliveryId]))
        IN  (/\ transfer.err = NoError
             /\ hop[1] = Org1 => Field(ledger2[deliveryId], "targetOrg") = Org3)
            => accept.err = NoError

(***************************************************************************)
(* Properties of the projections and of the encoding                       *)
(***************************************************************************)

\* what an output entry has to hold for a yielded value: the decoded value,
\* or the raw string when it does not decode
Decoded(text) ==
    IF JSONParse(text).threw THEN text ELSE JSONParse(text).value

\* C29: a query or history projection that has returned (other than for a
\* fertilizer that does not exist, or from an iterator whose next() failed)
\* did not fail, and its output has one
\* entry per record the iterator yielded, in the iterator's order, holding
\* the record's key (the version's TxId for a history; the id inside the
\* decoded value for the five-state query, whose entries are the decoded
\* values themselves) and the decoded value, or the raw string when the
\* value does not decode (null for a deleted version).
C29_ProjectionsKeepEveryRecord ==
    (/\ results.op # "none"
     /\ results.err \notin {"FertilizerNotFound", "IteratorError"})
    => /\ results.err = NoError
       /\ Len(results.entries) = Len(yielded)
       /\ \A j \in 1..Len(results.entries) :
            LET entry == results.entries[j]
                rec == yielded[j]
            IN  IF results.op = "TwoHopGetFertilizerHistory"
                THEN /\ DOMAIN entry =
                            {"TxId", "Timestamp", "IsDelete", "Value"}
                     /\ entry.TxId = rec.tx_id
                     /\ entry.IsDelete = rec.is_delete
                     /\ entry.Value = IF rec.value = EmptyText THEN Null
                                      ELSE Decoded(rec.value)
                ELSE IF results.op = "QueryAllFertilizers"
                THEN /\ entry = Decoded(rec.value)
                     /\ entry.fertilizerId = rec.key
                ELSE /\ DOMAIN entry = {"Key", "Record"}
                     /\ entry.Key = rec.key
                     /\ entry.Record = Decoded(rec.value)

C31_IteratorsAreClosed == results.iterator # "open"

\* C32: an InitLedger invoked when unit F001 or delivery D001 already exists
\* leaves every record of the ledger as it was.
C32_InitLedgerKeepsState ==
    [][(/\ last'.op = "InitLedger"
        /\ (ledger["F001"] # Absent \/ ledger["D001"] # Absent))
       => ledger' = ledger]_vars

\* C33: an AcceptDelivery that completes a delivery is called by the
\* organisation and the identity stored as agrodealerOrg and agrodealerId,
\* and no step changes the agrodealerOrg or agrodealerId of a delivery.
C33_CompletedByDesignatedRecipient ==
    [][/\ \A client \in Clients, timestamp \in Timestamps,
             deliveryId \in Keys, scanned \in ScanLists :
            LET s == AcceptDelivery(ledger, client, timestamp, deliveryId,
                                    scanned)
            IN  (/\ IsDelivery(ledger[deliveryId])
                 /\ ledger[deliveryId].status = "IN_TRANSIT_TO_AGRODEALER"
                 /\ s.err = NoError)
                => /\ client.mspId = ledger[deliveryId].agrodealerOrg
                   /\ client.id = ledger[deliveryId].agrodealerId
       /\ \A k \in Keys :
            (IsDelivery(ledger[k]) /\ IsDelivery(ledger'[k]))
            => /\ ledger'[k].agrodealerOrg = ledger[k].agrodealerOrg
               /\ ledger'[k].agrodealerId = ledger[k].agrodealerId]_vars

TransferActions ==
    {"TRANSFER_INITIATED_TO_TRANSPORTER", "TRANSFER_INITIATED_TO_AGRODEALER"}

\* C34: the received event a successful AcceptDelivery appends to a member
\* unit names as new owner the organisation and identity that the
\* transfer-initiated event before it named as new owner, and as previous
\* owner the organisation and identity that owned the unit before the
\* accept.
C34_ReceivedMatchesTransfer ==
    [][(last'.op = "AcceptDelivery" /\ last'.err = NoError)
       => \A m \in SeqSet(ledger'[ActedDelivery(last')].fertilizerIds) :
            (/\ IsFertilizer(ledger[m]) /\ IsFertilizer(ledger'[m])
             /\ Len(ledger'[m].history) = Len(ledger[m].history) + 1
             /\ LastEvent(ledger[m]).action \in TransferActions)
            => LET initiated == LastEvent(ledger[m])
                   received == LastEvent(ledger'[m])
               IN  /\ received.newOwnerOrg = initiated.newOwnerOrg
                   /\ received.newOwnerId = initiated.newOwnerId
                   /\ received.previousOwnerOrg = ledger[m].currentOwnerOrg
                   /\ received.previousOwnerId = ledger[m].currentOwnerId]_vars

\* some TransferDelivery or AcceptDelivery on the delivery succeeds, for
\* some caller, target and scan (the exact member list among the scans)
SomeStepSucceeds(world, deliveryId) ==
    \E client \in Clients, timestamp \in Timestamps :
        \/ \E newOwnerOrg \in TargetOrgs, newOwnerId \in TargetIds :
              TransferDelivery(world, client, timestamp, deliveryId,
                               newOwnerOrg, newOwnerId).err = NoError
        \/ \E scanned \in ScanLists \cup {world[deliveryId].fertilizerIds} :
              AcceptDelivery(world, client, timestamp, deliveryId,
                             scanned).err = NoError

\* C35: a delivery that is not COMPLETED is not stuck: some TransferDelivery
\* or AcceptDelivery on it succeeds (without one, no sequence of such calls
\* brings it to COMPLETED).
C35_NoDeliveryStuck ==
    \A deliveryId \in Keys :
        (/\ IsDelivery(ledger[deliveryId])
         /\ ledger[deliveryId].status # "COMPLETED")
        => SomeStepSucceeds(ledger, deliveryId)

\* every key outside touched holds in next what it held in world
OnlyTouched(world, next, touched) ==
    \A k \in Keys \ touched : next[k] = world[k]

\* C36: a successful AddFertilizerToDelivery, TransferDelivery or
\* AcceptDelivery on a delivery changes only the record of that delivery and
\* the records of its member units (and the unit created by
\* AddFertilizerToDelivery); every other key holds what it held.
C36_OtherRecordsUntouched ==
    \A client \in Clients, timestamp \in Timestamps, deliveryId \in Keys :
        LET own == IF IsDelivery(ledger[deliveryId])
                   THEN {deliveryId}
                            \cup SeqSet(ledger[deliveryId].fertilizerIds)
                   ELSE {deliveryId}
        IN  /\ \A fertilizerId \in Keys, productType \in ProductTypes,
                  quantity \in Quantities :
                LET s == AddFertilizerToDelivery(ledger, client, timestamp,
                            deliveryId, fertilizerId, productType, quantity)
                IN  s.err = NoError =>
                        OnlyTouched(ledger, TxResult(s),
                                    own \cup {fertilizerId})
            /\ \A newOwnerOrg \in TargetOrgs, newOwnerId \in TargetIds :
                LET s == TransferDelivery(ledger, client, timestamp,
                            deliveryId, newOwnerOrg, newOwnerId)
                IN  s.err = NoError => OnlyTouched(ledger, TxResult(s), own)
            /\ \A scanned \in ScanLists :
                LET s == AcceptDelivery(ledger, client, timestamp,
                            deliveryId, scanned)
                IN  s.err = NoError => OnlyTouched(ledger, TxResult(s), own)

\* a TransferDelivery or AcceptDelivery has just succeeded on one delivery
\* while another delivery is on the ledger
C36_Witness ==
    /\ last.op \in {"TransferDelivery", "AcceptDelivery"}
    /\ last.err = NoError
    /\ \E k \in Keys \ {ActedDelivery(last)} :
            /\ IsDelivery(ledger[k])
            /\ k \notin SeqSet(ledger[ActedDelivery(last)].fertilizerIds)

\* C37: in the two-hop chaincode every member unit of a delivery is on the
\* ledger as a fertilizer record owned by the organisation that owns the
\* delivery.
C37_MembersFollowDeliveryOwner ==
    \A k \in Keys :
        IsDelivery(ledger2[k]) =>
            \A m \in SeqSet(UnitIdsOf(ledger2[k])) :
                /\ IsFertilizer(ledger2[m])
                /\ ledger2[m].currentOwnerOrg = ledger2[k].ownerOrg

\* a two-hop delivery of two units has just changed hands
C37_Witness ==
    /\ last2.op \in {"TransferDelivery", "AcceptDelivery"}
    /\ last2.err = NoError
    /\ \E k \in Keys :
            /\ IsDelivery(ledger2[k])
            /\ Len(ledger2[k].fertilizerUnits) = 2
            /\ ledger2[k].ownerOrg # Org1

\* the status steps of the two-hop chaincode
TwoHopStatusSteps ==
    { <<"INITIATED", "TRANSFERRED">>, <<"TRANSFERRED", "ACCEPTED">> }

\* C38: in the two-hop chaincode the status of a delivery stays or advances
\* INITIATED -> TRANSFERRED -> ACCEPTED, no step changes the status, the
\* owner or the member list of an ACCEPTED delivery, and no step leaves a
\* delivery TRANSFERRED with an empty targetOrg.
C38_AcceptedIsTerminal ==
    [][\A k \in Keys :
          (IsDelivery(ledger2[k]) /\ IsDelivery(ledger2'[k]))
          => /\ \/ ledger2'[k].status = ledger2[k].status
                \/ <<ledger2[k].status, ledger2'[k].status>>
                        \in TwoHopStatusSteps
             /\ ledger2[k].status = "ACCEPTED"
                  => /\ ledger2'[k].status = "ACCEPTED"
                     /\ ledger2'[k].ownerOrg = ledger2[k].ownerOrg
                     /\ ledger2'[k].fertilizerUnits
                            = ledger2[k].fertilizerUnits
             /\ ~(/\ ledger2'[k].status = "TRANSFERRED"
                  /\ ledger2'[k].targetOrg = "")]_vars

\* C39: the shared gateway is created at most once: however the requests
\* interleave at the awaits of the initialisation, and whatever part of an
\* earlier initialisation failed, at most one gRPC client and at most one
\* gateway have been constructed, and each constructed one is still the one
\* the shared variable refers to (none was overwritten without a close).
C39_GatewayCreatedOnce ==
    /\ Cardinality(opened.clients) <= 1
    /\ Cardinality(opened.gateways) <= 1
    /\ opened.clients \subseteq {sharedClient}
    /\ opened.gateways \subseteq {sharedGateway}

====
